---------------------------- MODULE Spec2Model ----------------------------
(***************************************************************************)
(* FaceCommand (src/facecommand.py): the detection loop MainWindow._of,    *)
(* the session handlers _start/_stop/_recal/closeEvent, the camera thread  *)
(* that queues frame_ready signals, and the fire-and-forget action workers *)
(* that drive the input-synthesis boundary.                                *)
(*                                                                         *)
(* Times are wall-clock milliseconds as read by time.time()*1000; the      *)
(* clock is observed on a grid of TimeStep ms.  0.0 is the code's "unset"  *)
(* timestamp, so the clock starts at StartTime > 0 like the real one.      *)
(***************************************************************************)
EXTENDS Integers, Sequences, FiniteSets, TLC

(* ---------------------------- program constants ------------------------ *)
CAL_N == 45
REPEAT_INTERVAL == 150

\* The gesture catalog, in the order the loops of _of walk it.  Four of the
\* twelve entries are kept; every loop treats all entries alike.
GESTURES == <<"blink", "smile", "mouth_open", "pucker">>
GIDS == {GESTURES[i] : i \in DOMAIN GESTURES}

TRIGGER_MODES == {"single", "hold", "toggle"}
_HOLDABLE_ACTIONS == {"key", "left_click", "right_click", "middle_click"}
_REPEATABLE_ACTIONS == {"scroll_up", "scroll_down", "double_click", "macro"}

(* ------------------------- settings of the sliders --------------------- *)
\* Values inside the sliders' ranges (smoothing 1..15, cooldown 50..1500,
\* hold time 5..500, chain step timeout 300..5000).
Smoothing == 1
Cooldown == 100
HoldTime == 50
ChainTimeout == 300

(* ------------------------------- bounds ------------------------------- *)
TimeStep == 50
StartTime == 1000
MaxElapsed == 250
MaxQueued == 1
MaxMoving == 1

VARIABLES
  cam,           \* self.cam: "none", or "running" (a started CameraThread)
  queued,        \* frame_ready signals a stopped camera thread emitted
                 \* that are not yet delivered to _of
  closed,        \* closeEvent has run
  now,           \* the wall clock, ms
  cal_n,         \* GestureDetector.cal_n
  cal_s, bl,     \* GestureDetector.cal_s and .bl: feature -> sum, baseline
  morse_chains,  \* self.morse_chains: the morse chain cards, in order
  mc_hs, mc_buf, mc_last, mc_active,   \* self._mc_hs/_mc_buf/_mc_last/
                 \* _mc_active: chain_id -> hold start, buffer, time of the
                 \* last symbol, gesture at or above threshold
  sm,            \* self.sm, and self.lv which _of copies from it
  hs, ta, lt,    \* dwell start, armed flag, last fire time, per gesture
  hold_active, toggle_state, repeat_lt,
  enabled, triggerMode, action,      \* the cards' state (get_state)
  chains,        \* self.chains: the chain cards, in order
  chain_state,   \* self.chain_state: chain_id -> [step, last_time]
  chain_hs, chain_ta, chain_newly,   \* self._chain_hs/_chain_ta/_chain_newly
  workers,       \* started worker threads that have not run yet (a bag)
  down,          \* keys and buttons the OS sees pressed
  drag_active,   \* the module global _drag_active
  chain_counter, \* self.chain_counter: the cards _add_chain and
                 \* _add_morse_chain have made
  doc,           \* the configuration document _exp wrote or _imp read last
                 \* (<<>>: none yet)
  sms,           \* self.sms.value(): the smoothing slider, 1..15
  thresholdMax,  \* the cards' tmax sliders (get_state's thresholdMax)
  brow,          \* the eyebrow scores of the frame compute saw last: the
                 \* per-side and combined scores it computed and the
                 \* three scores it returned
  key_bind,      \* the binding string the key functions are given, as its
                 \* tokens
  macro,         \* the macro string execute_macro is given, as its parts
  trace,         \* the inputs execute_macro sent and its sleeps, in order
  op,            \* the handler that ran last
  ev,            \* the requests that handler issued, in order
  since,         \* observer: start of the score's current stay at or above
                 \* threshold (0: it is below), over the processed frames
  unmatched,     \* observer: hold starts issued and not yet stopped
  epfires,       \* observer: single-mode fires in the current stay
  lastfire,      \* observer: time of the last fire of single or hold mode
                 \* (0: none)
  tog_done,      \* observer: the current stay has counted as an activation
  tog_last,      \* observer: time of the last counted activation (0: none)
  tog_par,       \* observer: parity of the activations counted
  other_edge,    \* observer: the chains for which an edge of a gesture
                 \* outside the sequence was seen since they left step 0
  late_edge,     \* observer: the chains that the last frame found beyond
                 \* their timeout while the gesture then expected had an edge
  mc_sym,        \* observer: chain_id -> the symbols the last frame appended
  mc_edited,     \* observer: the morse chains whose pattern rows were
                 \* edited since their buffer was last empty
  raw,           \* observer: the scores compute returned last (all 0
                 \* after a reset)
  fed            \* observer: the face frames compute has been given since
                 \* the last reset, counted up to CAL_N

morse == <<morse_chains, mc_hs, mc_buf, mc_last, mc_active>>
core == <<cam, queued, closed, now, cal_n, cal_s, bl, sm, hs, ta, lt,
          hold_active, toggle_state, repeat_lt, enabled, triggerMode, action,
          chains, chain_state, chain_hs, chain_ta, chain_newly, morse, op, ev>>
io == <<workers, down, drag_active, chain_counter, doc, sms, thresholdMax, brow, key_bind,
        macro, trace>>
obs == <<since, unmatched, epfires, lastfire, tog_done, tog_last, tog_par,
         other_edge, late_edge, mc_sym, mc_edited,
         raw, fed>>
vars == <<core, io, obs>>

(* ------------------------------ helpers -------------------------------- *)
Flat(ss) ==  \* the concatenation of a sequence of sequences
  LET F[i \in 0..Len(ss)] == IF i = 0 THEN <<>> ELSE F[i - 1] \o ss[i]
  IN F[Len(ss)]

\* A request the detection loop issues: execute_action, execute_hold_start
\* or execute_hold_stop for a card or chain (src), with the action kind it
\* was given; thread tells a started worker thread from a direct call.
Req(src, req, act, why, thread) ==
  [src |-> src, req |-> req, act |-> act, why |-> why, thread |-> thread]

(* ------------------------------ smoother ------------------------------- *)
\* variant: the new score weighs more than 1, the old one less than 0
EmaAtOver(prev, val, s) ==
  (val * (300 + 17 * s) - prev * (17 * s)) \div 300

\* alpha = 1-(sms/15)*0.85 = (300 - 17*sms)/300; scores are kept as whole
\* numbers (the fraction is dropped).
EmaAt(prev, val, s) ==
  (prev * (17 * s) + val * (300 - 17 * s)) \div 300

Ema(prev, val) == EmaAt(prev, val, sms)

\* s['thresholdMin'] of a card: the tmin slider (0..100), set to 10 on
\* every card.
thresholdMin(g) == 10

\* g['dtmax'] of the catalog: the value a card's tmax slider is built with
dtmax ==
  [g \in GIDS |->
     CASE g = "blink" -> 70 [] g = "pucker" -> 85 [] OTHER -> 100]

\* variant: a score above the high threshold does not count
ActivationBand(val, tmin, tmax) == val >= tmin /\ val <= tmax

\* if val >= th, with th = s['thresholdMin']; s['thresholdMax'] is at hand
\* in the same card state
Activation(val, tmin, tmax) == val >= tmin

(* ------------------------ trigger state machine ------------------------ *)
\* The runtime fields of one gesture, and the requests issued for it.
Rt(g) ==
  [hs |-> hs[g], ta |-> ta[g], lt |-> lt[g], hold_active |-> hold_active[g],
   toggle_state |-> toggle_state[g], repeat_lt |-> repeat_lt[g], out |-> <<>>]

\* variant: a disabled gesture is skipped without looking at hold_active
DisabledStepSkip(g) == Rt(g)

\* if not s['enabled']: release a hold, then continue
DisabledStep(g) ==
  IF hold_active[g]
  THEN [Rt(g) EXCEPT !.hold_active = FALSE,
          !.out = <<Req(g, "hold_stop", action[g], "disabled", FALSE)>>]
  ELSE Rt(g)

\* if self.hs[gid] == 0: self.hs[gid] = now_ms
DwellStart(g, t) == IF hs[g] = 0 THEN t ELSE hs[g]

\* variant: the armed flag is not consulted
SingleFiresUnarmed(g, held, t) == held >= HoldTime /\ t - lt[g] > Cooldown

SingleFires(g, held, t) ==
  held >= HoldTime /\ ~ta[g] /\ t - lt[g] > Cooldown

SingleStep(g, t) ==
  LET h == DwellStart(g, t) IN
  IF SingleFires(g, t - h, t)
  THEN [Rt(g) EXCEPT !.hs = h, !.ta = TRUE, !.lt = t,
          !.out = <<Req(g, "action", action[g], "single", TRUE)>>]
  ELSE [Rt(g) EXCEPT !.hs = h]

HoldStarts(g, held) == held >= HoldTime /\ ~hold_active[g]

\* variant: a repeat in every frame while held
HoldRepeatsAlways(g, t) ==
  hold_active[g] /\ action[g] \in _REPEATABLE_ACTIONS

HoldRepeats(g, t) ==
  /\ hold_active[g] /\ action[g] \in _REPEATABLE_ACTIONS
  /\ t - repeat_lt[g] >= REPEAT_INTERVAL

HoldStep(g, t) ==
  LET h == DwellStart(g, t)
      act == action[g] IN
  IF HoldStarts(g, t - h)
  THEN [Rt(g) EXCEPT !.hs = h, !.hold_active = TRUE, !.ta = TRUE,
          !.repeat_lt =
             IF act \notin _HOLDABLE_ACTIONS
                /\ (act \in _REPEATABLE_ACTIONS \/ act = "command")
             THEN t ELSE @,
          !.out =
             IF act \in _HOLDABLE_ACTIONS
             THEN <<Req(g, "hold_start", act, "hold", TRUE)>>
             ELSE <<Req(g, "action", act, "hold", TRUE)>>]
  ELSE IF HoldRepeats(g, t)
  THEN [Rt(g) EXCEPT !.hs = h, !.repeat_lt = t,
          !.out = <<Req(g, "action", act, "repeat", TRUE)>>]
  ELSE [Rt(g) EXCEPT !.hs = h]

ToggleFlips(g, held, t) ==
  held >= HoldTime /\ ~ta[g] /\ t - lt[g] > Cooldown

ToggleStep(g, t) ==
  LET h == DwellStart(g, t)
      act == action[g] IN
  IF ~ToggleFlips(g, t - h, t) THEN [Rt(g) EXCEPT !.hs = h]
  ELSE IF ~toggle_state[g]
  THEN [Rt(g) EXCEPT !.hs = h, !.ta = TRUE, !.lt = t, !.toggle_state = TRUE,
          !.out =
             IF act \in _HOLDABLE_ACTIONS
             THEN <<Req(g, "hold_start", act, "toggle_on", TRUE)>>
             ELSE <<Req(g, "action", act, "toggle_on", TRUE)>>]
  ELSE [Rt(g) EXCEPT !.hs = h, !.ta = TRUE, !.lt = t, !.toggle_state = FALSE,
          !.out =
             IF act \in _HOLDABLE_ACTIONS
             THEN <<Req(g, "hold_stop", act, "toggle_off", TRUE)>>
             ELSE <<>>]

\* else: the gesture dropped below threshold
DropStep(g) ==
  IF triggerMode[g] = "hold" /\ hold_active[g]
  THEN [Rt(g) EXCEPT !.hold_active = FALSE, !.ta = FALSE, !.hs = 0,
          !.out =
             IF action[g] \in _HOLDABLE_ACTIONS
             THEN <<Req(g, "hold_stop", action[g], "drop", TRUE)>>
             ELSE <<>>]
  ELSE [Rt(g) EXCEPT !.ta = FALSE, !.hs = 0]

\* One pass of `for g in GESTURES` for gesture g: val is self.lv[gid], t is
\* now_ms.
TriggerAt(g, val, t, tmax) ==
  IF ~enabled[g] THEN DisabledStep(g)
  ELSE IF Activation(val, thresholdMin(g), tmax)
  THEN CASE triggerMode[g] = "single" -> SingleStep(g, t)
         [] triggerMode[g] = "hold" -> HoldStep(g, t)
         [] triggerMode[g] = "toggle" -> ToggleStep(g, t)
  ELSE DropStep(g)

\* the pass with the card's state as get_state returns it
Trigger(g, val, t) == TriggerAt(g, val, t, thresholdMax[g])

(* ---------------------------- chain matcher ---------------------------- *)
\* The activation tracker of the chains for gesture g: its _chain_hs and
\* _chain_ta after the frame, and whether g is newly activated in it.
ChainEdgeAt(g, val, t, tmax) ==
  IF Activation(val, thresholdMin(g), tmax)
  THEN LET h == IF chain_hs[g] = 0 THEN t ELSE chain_hs[g] IN
       IF t - h >= HoldTime /\ ~chain_ta[g]
       THEN [hs |-> h, ta |-> TRUE, newly |-> TRUE]
       ELSE [hs |-> h, ta |-> chain_ta[g], newly |-> FALSE]
  ELSE [hs |-> 0, ta |-> FALSE, newly |-> FALSE]

\* the tracker with card_s as get_state returns it
ChainEdge(g, val, t) == ChainEdgeAt(g, val, t, thresholdMax[g])

\* self.chain_state[cid], created on first use
ChainEntry(cid) ==
  IF cid \in DOMAIN chain_state THEN chain_state[cid]
  ELSE [step |-> 0, last_time |-> 0]

\* variant: the timeout is never applied
ChainExpiredNever(cs, timeout, t) == FALSE

\* if cs['step'] > 0 and (now_ms - cs['last_time']) > timeout
ChainExpired(cs, timeout, t) == cs.step > 0 /\ t - cs.last_time > timeout

\* variant: any newly activated gesture is taken for the expected one
ChainAcceptsAny(seq, step, newly) == step < Len(seq) /\ newly # {}

\* expected_gid and expected_gid in self._chain_newly
ChainAccepts(seq, step, newly) == step < Len(seq) /\ seq[step + 1] \in newly

\* variant: a completed chain keeps its step index
ChainStepKeep(chain, newly, t) ==
  LET cs0 == ChainEntry(chain.chain_id)
      cs1 == IF cs0.step > 0 /\ t - cs0.last_time > chain.timeout
             THEN [step |-> 0, last_time |-> 0] ELSE cs0
  IN IF ~(cs1.step < Len(chain.seq) /\ chain.seq[cs1.step + 1] \in newly)
     THEN [cs |-> cs1, out |-> <<>>]
     ELSE [cs |-> [step |-> cs1.step + 1, last_time |-> t],
           out |-> IF cs1.step + 1 >= Len(chain.seq)
                   THEN <<Req(chain.chain_id, "action", chain.action,
                              "chain", TRUE)>>
                   ELSE <<>>]

\* variant: the next steps are accepted in the same frame as long as the
\* gestures they expect are among the newly activated
ChainStepGreedy(chain, newly, t) ==
  LET cs0 == ChainEntry(chain.chain_id)
      cs1 == IF cs0.step > 0 /\ t - cs0.last_time > chain.timeout
             THEN [step |-> 0, last_time |-> 0] ELSE cs0
      run == {n \in 0..(Len(chain.seq) - cs1.step) :
                \A j \in 1..n : chain.seq[cs1.step + j] \in newly}
      n == CHOOSE k \in run : \A j \in run : j <= k
  IN IF n = 0 THEN [cs |-> cs1, out |-> <<>>]
     ELSE IF cs1.step + n >= Len(chain.seq)
     THEN [cs |-> [step |-> 0, last_time |-> 0],
           out |-> <<Req(chain.chain_id, "action", chain.action, "chain",
                         TRUE)>>]
     ELSE [cs |-> [step |-> cs1.step + n, last_time |-> t], out |-> <<>>]

\* One pass of `for chain in self.chains` for a chain of two or more
\* gestures: the entry after the frame and the request issued.
ChainStep(chain, newly, t) ==
  LET cs0 == ChainEntry(chain.chain_id)
      cs1 == IF ChainExpired(cs0, chain.timeout, t)
             THEN [step |-> 0, last_time |-> 0] ELSE cs0
  IN IF ~ChainAccepts(chain.seq, cs1.step, newly)
     THEN [cs |-> cs1, out |-> <<>>]
     ELSE IF cs1.step + 1 >= Len(chain.seq)
     THEN [cs |-> [step |-> 0, last_time |-> 0],
           out |-> <<Req(chain.chain_id, "action", chain.action, "chain",
                         TRUE)>>]
     ELSE [cs |-> [step |-> cs1.step + 1, last_time |-> t], out |-> <<>>]

\* The chains the loop does not skip (len(seq) < 2: continue).
LiveChains == {i \in DOMAIN chains : Len(chains[i].seq) >= 2}

(* ---------------------------- morse matcher ---------------------------- *)
\* MorseChainCard.get_patterns: the rows that hold a pattern, in order
get_patterns(chain) == SelectSeq(chain.patterns, LAMBDA r : r.pattern # <<>>)

\* self._mc_hs[cid], _mc_buf[cid], _mc_last[cid] and _mc_active[cid],
\* created on first use
MorseEntry(cid) ==
  IF cid \in DOMAIN mc_buf
  THEN [hs |-> mc_hs[cid], buf |-> mc_buf[cid], last |-> mc_last[cid],
        active |-> mc_active[cid]]
  ELSE [hs |-> 0, buf |-> <<>>, last |-> 0, active |-> FALSE]

\* variant: the timeout is applied during a hold as well
MorseTimedOutHeld(was_active, buf, last, timeout, t) ==
  buf # <<>> /\ t - last > timeout

\* if not was_active and buf and (now_ms - self._mc_last[cid]) > timeout_ms
MorseTimedOut(was_active, buf, last, timeout, t) ==
  ~was_active /\ buf # <<>> /\ t - last > timeout

\* variant: a hold of exactly the long threshold is taken for a short one
MorseSymbolLate(held, short_ms, long_ms) ==
  IF held < short_ms THEN <<>>
  ELSE IF held > long_ms THEN <<"L">> ELSE <<"S">>

\* if held >= short_ms: sym = 'L' if held >= long_ms else 'S'
MorseSymbol(held, short_ms, long_ms) ==
  IF held < short_ms THEN <<>>
  ELSE IF held >= long_ms THEN <<"L">> ELSE <<"S">>

\* variant: the last of the rows that equal the buffer is taken
MorseMatchLast(pats, buf) ==
  LET hit == {i \in DOMAIN pats : pats[i].pattern = buf}
  IN IF hit = {} THEN 0 ELSE CHOOSE i \in hit : \A j \in hit : j <= i

\* variant: a match is held back while a longer pattern starts with the
\* buffer
MorseMatchLongest(pats, buf) ==
  LET hit == {i \in DOMAIN pats : pats[i].pattern = buf}
  IN IF hit = {} \/ \E i \in DOMAIN pats :
                     /\ Len(pats[i].pattern) > Len(buf)
                     /\ SubSeq(pats[i].pattern, 1, Len(buf)) = buf
     THEN 0 ELSE CHOOSE i \in hit : \A j \in hit : i <= j

\* for pat, a_state in chain.get_patterns(): if buf == pat: ... break
\* (the index of the row taken; 0: none)
MorseMatch(pats, buf) ==
  LET hit == {i \in DOMAIN pats : pats[i].pattern = buf}
  IN IF hit = {} THEN 0 ELSE CHOOSE i \in hit : \A j \in hit : i <= j

\* variant: every buffer is kept
IsPrefixAny(buf, pat) == TRUE

\* pat[:len(buf)] == buf
IsPrefix(buf, pat) ==
  Len(buf) <= Len(pat) /\ SubSeq(pat, 1, Len(buf)) = buf

\* One pass of `for chain in self.morse_chains` for a chain with a gesture:
\* the entry after the frame, the symbols appended (sym) and the request
\* issued.
MorseStepAt(chain, val, t, tmax) ==
  LET e == MorseEntry(chain.chain_id)
      buf1 == IF MorseTimedOut(e.active, e.buf, e.last, chain.timeout, t)
              THEN <<>> ELSE e.buf
      pats == get_patterns(chain)
  IN IF Activation(val, thresholdMin(chain.gesture), tmax)
     THEN [hs |-> IF e.active THEN e.hs ELSE t, buf |-> buf1,
           last |-> e.last, active |-> TRUE, sym |-> <<>>, out |-> <<>>]
     ELSE IF ~e.active
     THEN [hs |-> e.hs, buf |-> buf1, last |-> e.last, active |-> FALSE,
           sym |-> <<>>, out |-> <<>>]
     ELSE LET sym == MorseSymbol(t - e.hs, chain.short_ms, chain.long_ms)
              buf2 == buf1 \o sym
              hit == MorseMatch(pats, buf2)
          IN IF sym = <<>>
             THEN [hs |-> 0, buf |-> buf1, last |-> e.last,
                   active |-> FALSE, sym |-> <<>>, out |-> <<>>]
             ELSE IF hit # 0
             THEN [hs |-> 0, buf |-> <<>>, last |-> t, active |-> FALSE,
                   sym |-> sym,
                   out |-> <<Req(chain.chain_id, "action", pats[hit].action,
                                 "morse", TRUE)>>]
             ELSE [hs |-> 0,
                   buf |-> IF \E i \in DOMAIN pats :
                                IsPrefix(buf2, pats[i].pattern)
                           THEN buf2 ELSE <<>>,
                   last |-> t, active |-> FALSE, sym |-> sym, out |-> <<>>]

\* the pass with card_s as get_state returns it
MorseStep(chain, val, t) ==
  MorseStepAt(chain, val, t, thresholdMax[chain.gesture])

\* The morse chains the loop does not skip (if not gid: continue).
LiveMorse == {i \in DOMAIN morse_chains : morse_chains[i].gesture # ""}

(* ------------------------- GestureDetector ----------------------------- *)
\* The features compute sums up while calibrating, one for each gesture
\* that is scored against the baseline; blink is scored from the eye aspect
\* ratio alone.
KEYS == GIDS \ {"blink"}

\* The values of a feature in a calibration frame.  They are multiples of
\* CAL_N, so the mean v/CAL_N of CAL_N of them is a whole number.
CalValues == {0, CAL_N}

\* s.get(k, 0)
Get(s, k) == IF k \in DOMAIN s THEN s[k] ELSE 0

\* variant: every call of compute counts the frame
CountedEver == cal_n + 1

\* GestureDetector.compute counts the frame; calibrated is cal_n >= CAL_N
Counted == IF cal_n < CAL_N THEN cal_n + 1 ELSE cal_n

\* for k,v in [...]: s[k]=s.get(k,0)+v, while cal_n < CAL_N
Accumulated(f) ==
  IF cal_n < CAL_N THEN [k \in KEYS |-> Get(cal_s, k) + f[k]] ELSE cal_s

\* self.bl = {k:v/CAL_N for k,v in s.items()}, when cal_n reaches CAL_N
Baseline(f) ==
  IF cal_n < CAL_N /\ cal_n + 1 = CAL_N
  THEN [k \in KEYS |-> Accumulated(f)[k] \div CAL_N]
  ELSE bl

Clamp(x) == IF x < 0 THEN 0 ELSE IF x > 100 THEN 100 ELSE x

\* variant: the delta-based scores are not held at 0 while calibrating
ScoresEarly(f, b) ==
  [g \in GIDS |->
     IF g = "blink" THEN b ELSE Clamp(f[g] - Get(Baseline(f), g))]

\* The scores compute returns for the features f and the blink score b:
\* max(0, min(100, (feature - baseline) * gain)) with gain 1 once
\* calibrated, 0 for every delta-based score before.
Scores(f, b) ==
  [g \in GIDS |->
     IF g = "blink" THEN b
     ELSE IF Counted >= CAL_N THEN Clamp(f[g] - Baseline(f)[g])
     ELSE 0]

\* both_threshold = 85
both_threshold == 85

\* variant: the per-side scores are reported next to the combined one
EyebrowsAll(raw_left, raw_right, combined) ==
  [eyebrow_raise |-> combined, eyebrow_raise_left |-> raw_left,
   eyebrow_raise_right |-> raw_right]

\* the eyebrow scores compute returns in a calibrated frame, for the
\* per-side scores raw_left and raw_right and the combined score (each
\* already held within 0..100)
Eyebrows(raw_left, raw_right, combined) ==
  IF raw_left >= both_threshold /\ raw_right >= both_threshold
  THEN [eyebrow_raise |-> combined, eyebrow_raise_left |-> 0,
        eyebrow_raise_right |-> 0]
  ELSE [eyebrow_raise |-> 0, eyebrow_raise_left |-> raw_left,
        eyebrow_raise_right |-> raw_right]

\* the eyebrow scores of a frame and the scores returned for it
Brows(l, r, c, out) ==
  [raw_left |-> l, raw_right |-> r, combined |-> c, out |-> out]

\* GestureDetector.reset: no frame yet, every score 0
NoBrows ==
  Brows(0, 0, 0, [eyebrow_raise |-> 0, eyebrow_raise_left |-> 0,
                  eyebrow_raise_right |-> 0])

(* --------------------------- session handlers -------------------------- *)
\* variant: only hold_active is consulted
NeedsReleaseHold(g) == hold_active[g]

NeedsRelease(g) == hold_active[g] \/ toggle_state[g]

\* _release_all_holds: the hold stops it calls, in catalog order
ReleaseRequests ==
  Flat([i \in DOMAIN GESTURES |->
          IF NeedsRelease(GESTURES[i])
          THEN <<Req(GESTURES[i], "hold_stop", action[GESTURES[i]],
                     "release", FALSE)>>
          ELSE <<>>])

\* the flags _release_all_holds leaves
Released(flag) == [g \in GIDS |-> IF NeedsRelease(g) THEN FALSE ELSE flag[g]]

Zero == [g \in GIDS |-> 0]
AllFalse == [g \in GIDS |-> FALSE]

Starts(e, g) == e.src = g /\ e.req = "hold_start"
Stops(e, g) == e.src = g /\ e.req = "hold_stop"
SingleFire(e, g) == e.src = g /\ e.req = "action" /\ e.why = "single"
HoldFire(e, g) ==
  e.src = g /\ e.req = "action" /\ e.why \in {"hold", "repeat"}

\* observer: the hold starts left unmatched after the requests out
Unmatched(out) ==
  [g \in GIDS |->
     IF \E i \in DOMAIN out : Stops(out[i], g) THEN 0
     ELSE IF \E i \in DOMAIN out : Starts(out[i], g)
     THEN IF unmatched[g] = 0 THEN 1 ELSE 2
     ELSE unmatched[g]]

Idle == op' = "idle" /\ ev' = <<>>

\* wall-clock time passes: d ms, up to limit ms after the start
Advance(d, limit) ==
  /\ ~closed
  /\ now + d <= StartTime + limit
  /\ now' = now + d
  /\ Idle
  /\ UNCHANGED <<cam, queued, closed, cal_n, sm, hs, ta, lt, hold_active,
                 toggle_state, repeat_lt, enabled, triggerMode, action,
                 chains, chain_state, chain_hs, chain_ta, chain_newly, obs,
                 cal_s, bl, morse>>

Tick == Advance(TimeStep, MaxElapsed)

\* the enable checkbox of a card
SetEnabled(g, b) ==
  /\ ~closed
  /\ enabled[g] # b
  /\ enabled' = [enabled EXCEPT ![g] = b]
  /\ Idle
  /\ UNCHANGED <<cam, queued, closed, now, cal_n, sm, hs, ta, lt,
                 hold_active, toggle_state, repeat_lt, triggerMode, action,
                 chains, chain_state, chain_hs, chain_ta, chain_newly, obs,
                 cal_s, bl, morse>>

\* _tc with no running camera: _start
Start ==
  /\ ~closed /\ cam = "none"
  /\ cam' = "running"
  /\ cal_n' = 0 /\ sm' = Zero
  /\ hold_active' = AllFalse /\ toggle_state' = AllFalse
  /\ repeat_lt' = Zero
  /\ chain_state' = <<>>
  /\ chain_hs' = Zero /\ chain_ta' = AllFalse /\ chain_newly' = {}
  /\ op' = "start" /\ ev' = <<>>
  /\ since' = Zero /\ epfires' = Zero
  /\ tog_done' = AllFalse /\ tog_par' = Zero
  /\ other_edge' = {} /\ late_edge' = {}
  /\ queued' = 0
  /\ cal_s' = <<>> /\ bl' = <<>> /\ fed' = 0 /\ raw' = Zero
  /\ mc_hs' = <<>> /\ mc_buf' = <<>> /\ mc_last' = <<>> /\ mc_active' = <<>>
  /\ mc_sym' = <<>> /\ mc_edited' = {}
  /\ UNCHANGED <<closed, now, hs, ta, lt, enabled, triggerMode,
                 action, chains, morse_chains, unmatched, lastfire,
                 tog_last>>

\* _tc with a running camera: _stop.  The camera thread stops at its next
\* check of _running; up to MaxQueued of the frames it emitted are still
\* queued for _of when _stop returns.
Stop ==
  /\ ~closed /\ cam = "running"
  /\ cam' = "none"
  /\ queued' \in 0..MaxQueued
  /\ hold_active' = Released(hold_active)
  /\ toggle_state' = Released(toggle_state)
  /\ op' = "stop" /\ ev' = ReleaseRequests
  /\ unmatched' = Unmatched(ReleaseRequests)
  /\ tog_par' = Zero
  /\ UNCHANGED <<closed, now, cal_n, sm, hs, ta, lt, repeat_lt,
                 enabled, triggerMode, action, chains, chain_state,
                 chain_hs, chain_ta, chain_newly, since, epfires, lastfire,
                 tog_done, tog_last, other_edge, late_edge,
                 cal_s, bl, morse, mc_sym, mc_edited, raw, fed>>

\* the Recalibrate button, shown while the camera is started
Recal ==
  /\ ~closed /\ cam = "running"
  /\ hold_active' = Released(hold_active)
  /\ toggle_state' = Released(toggle_state)
  /\ chain_state' = <<>>
  /\ cal_n' = 0 /\ sm' = Zero
  /\ op' = "recal" /\ ev' = ReleaseRequests
  /\ unmatched' = Unmatched(ReleaseRequests)
  /\ since' = Zero /\ epfires' = Zero
  /\ tog_done' = AllFalse /\ tog_par' = Zero
  /\ other_edge' = {} /\ late_edge' = {}
  /\ cal_s' = <<>> /\ bl' = <<>> /\ fed' = 0 /\ raw' = Zero
  /\ UNCHANGED <<cam, queued, closed, now, hs, ta, lt, repeat_lt, enabled,
                 triggerMode, action, chains, chain_hs, chain_ta,
                 chain_newly, lastfire, tog_last, morse, mc_sym,
                 mc_edited>>

\* closeEvent: _release_all_holds, then _stop (which releases again and
\* finds nothing set)
Close ==
  /\ ~closed
  /\ closed' = TRUE
  /\ cam' = "none"
  /\ hold_active' = Released(hold_active)
  /\ toggle_state' = Released(toggle_state)
  /\ op' = "close" /\ ev' = ReleaseRequests
  /\ unmatched' = Unmatched(ReleaseRequests)
  /\ tog_par' = Zero
  /\ UNCHANGED <<queued, now, cal_n, sm, hs, ta, lt, repeat_lt, enabled,
                 triggerMode, action, chains, chain_state, chain_hs,
                 chain_ta, chain_newly, since, epfires, lastfire, tog_done,
                 tog_last, other_edge, late_edge,
                 cal_s, bl, morse, mc_sym, mc_edited, raw, fed>>

(* ----------------------------- _of: a frame ---------------------------- *)
\* The raw scores compute returns (0..100): a gesture the face makes scores
\* RawHigh, the others 0.  With Smoothing = 1 the smoothed score is then 16
\* from the first frame of the gesture and 0 from the first frame after it.
RawHigh == 17

\* frame_ready delivers a frame to _of: one the running camera thread
\* emits, or one a stopped thread left queued
Delivered ==
  /\ ~closed
  /\ IF cam = "running" THEN queued' = queued
     ELSE queued > 0 /\ queued' = queued - 1

\* variant: a frame without a face counts as a calibration frame
FrameNoFaceCounted ==
  /\ Delivered
  /\ Counted < CAL_N
  /\ cal_n' = Counted
  /\ op' = "noface" /\ ev' = <<>>
  /\ UNCHANGED <<cam, closed, now, sm, hs, ta, lt, hold_active,
                 toggle_state, repeat_lt, enabled, triggerMode, action,
                 chains, chain_state, chain_hs, chain_ta, chain_newly, obs,
                 cal_s, bl, morse>>

\* if lm is None: ... return
FrameNoFace ==
  /\ Delivered
  /\ op' = "noface" /\ ev' = <<>>
  /\ UNCHANGED <<cam, closed, now, cal_n, sm, hs, ta, lt, hold_active,
                 toggle_state, repeat_lt, enabled, triggerMode, action,
                 chains, chain_state, chain_hs, chain_ta, chain_newly, obs,
                 cal_s, bl, morse>>

\* variant: _of goes on whether or not the detector is calibrated
CalibratingNever(n) == FALSE

\* if not self.det.calibrated, for the detector's count n after compute
Calibrating(n) == n < CAL_N

\* if not self.det.calibrated: ... return
FrameCalibrating ==
  /\ Delivered
  /\ Calibrating(Counted)
  /\ \E v \in CalValues : \E b \in {0, RawHigh} :
       LET f == [k \in KEYS |-> v] IN
       /\ cal_s' = Accumulated(f)
       /\ bl' = Baseline(f)
       /\ raw' = Scores(f, b)
  /\ cal_n' = Counted
  /\ fed' = (IF fed < CAL_N THEN fed + 1 ELSE fed)
  /\ op' = "calib" /\ ev' = <<>>
  /\ UNCHANGED <<cam, closed, now, sm, hs, ta, lt, hold_active,
                 toggle_state, repeat_lt, enabled, triggerMode, action,
                 chains, chain_state, chain_hs, chain_ta, chain_newly, morse,
                 since, unmatched, epfires, lastfire, tog_done, tog_last,
                 tog_par, other_edge, late_edge, mc_sym,
                 mc_edited>>

\* observer: a flip of a toggle-mode gesture counts as an activation when,
\* over the processed frames, the score has been at or above threshold for
\* the hold time (st: start of the stay), the stay has not counted before
\* and the last counted activation is more than the cooldown ago
Activates(g, val, t, st, flipped) ==
  /\ flipped
  /\ enabled[g] /\ triggerMode[g] = "toggle"
  /\ val >= thresholdMin(g)
  /\ t - st >= HoldTime
  /\ ~tog_done[g]
  /\ t - tog_last[g] > Cooldown

\* The rest of _of for a frame with a face, once calibrated.  D: the
\* gestures the face makes in the session, at most n of them in
\* one frame; a gesture the face makes moves its feature RawHigh off the
\* baseline.  The frame that completes the calibration has the features of
\* a calibration frame.
FrameTracking(D, n) ==
  /\ Delivered
  /\ ~Calibrating(Counted)
  /\ cal_n' = Counted
  /\ fed' = (IF fed < CAL_N THEN fed + 1 ELSE fed)
  /\ \E mv \in SUBSET D : \E v \in (IF cal_n < CAL_N THEN CalValues ELSE {0}) :
       /\ Cardinality(mv) <= n
       /\ LET f == [k \in KEYS |->
                      IF cal_n < CAL_N THEN v
                      ELSE bl[k] + (IF k \in mv THEN RawHigh ELSE 0)]
              rw == Scores(f, IF "blink" \in mv THEN RawHigh ELSE 0)
              lv == [g \in GIDS |-> Ema(sm[g], rw[g])]
              mo == [i \in LiveMorse |->
                       MorseStep(morse_chains[i],
                                 lv[morse_chains[i].gesture], now)]
              mlive == {morse_chains[i].chain_id : i \in LiveMorse}
              mof(cid) ==
                CHOOSE i \in LiveMorse : morse_chains[i].chain_id = cid
              r == [g \in GIDS |-> Trigger(g, lv[g], now)]
              e == [g \in GIDS |-> ChainEdge(g, lv[g], now)]
              newly == {g \in GIDS : e[g].newly}
              c == [i \in LiveChains |-> ChainStep(chains[i], newly, now)]
              live == {chains[i].chain_id : i \in LiveChains}
              of(cid) == CHOOSE i \in LiveChains : chains[i].chain_id = cid
              out == Flat([i \in DOMAIN GESTURES |-> r[GESTURES[i]].out])
                     \o Flat([i \in DOMAIN chains |->
                                IF i \in LiveChains THEN c[i].out ELSE <<>>])
                     \o Flat([i \in DOMAIN morse_chains |->
                                IF i \in LiveMorse THEN mo[i].out ELSE <<>>])
              st == [g \in GIDS |->
                       IF lv[g] < thresholdMin(g) THEN 0
                       ELSE IF since[g] = 0 THEN now ELSE since[g]]
              act == [g \in GIDS |->
                        Activates(g, lv[g], now, st[g],
                                  r[g].toggle_state # toggle_state[g])]
          IN
          /\ cal_s' = Accumulated(f)
          /\ bl' = Baseline(f)
          /\ raw' = rw
          /\ sm' = lv
          /\ hs' = [g \in GIDS |-> r[g].hs]
          /\ ta' = [g \in GIDS |-> r[g].ta]
          /\ lt' = [g \in GIDS |-> r[g].lt]
          /\ hold_active' = [g \in GIDS |-> r[g].hold_active]
          /\ toggle_state' = [g \in GIDS |-> r[g].toggle_state]
          /\ repeat_lt' = [g \in GIDS |-> r[g].repeat_lt]
          /\ IF chains = <<>>
             THEN UNCHANGED <<chain_hs, chain_ta, chain_newly, chain_state,
                              other_edge, late_edge>>
             ELSE /\ chain_hs' = [g \in GIDS |-> e[g].hs]
                  /\ chain_ta' = [g \in GIDS |-> e[g].ta]
                  /\ chain_newly' = newly
                  /\ chain_state' =
                       [cid \in DOMAIN chain_state \cup live |->
                          IF cid \in live THEN c[of(cid)].cs
                          ELSE chain_state[cid]]
                  /\ other_edge' =
                       {chains[i].chain_id : i \in
                          {j \in LiveChains :
                             LET ch == chains[j]
                                 cs0 == ChainEntry(ch.chain_id)
                                 was == /\ cs0.step > 0
                                        /\ ~ChainExpired(cs0, ch.timeout, now)
                                        /\ \/ ch.chain_id \in other_edge
                                           \/ \E g \in newly :
                                                \A k \in DOMAIN ch.seq :
                                                   ch.seq[k] # g
                             IN was /\ (c[j].cs.step > 0 \/ c[j].out # <<>>)}}
                  /\ late_edge' =
                       {chains[i].chain_id : i \in
                          {j \in LiveChains :
                             LET ch == chains[j]
                                 cs0 == ChainEntry(ch.chain_id)
                             IN /\ cs0.step > 0
                                /\ now - cs0.last_time > ch.timeout
                                /\ cs0.step < Len(ch.seq)
                                /\ ch.seq[cs0.step + 1] \in newly}}
          /\ IF morse_chains = <<>>
             THEN UNCHANGED <<mc_hs, mc_buf, mc_last, mc_active, mc_sym,
                              mc_edited>>
             ELSE /\ mc_hs' = [cid \in DOMAIN mc_hs \cup mlive |->
                                 IF cid \in mlive THEN mo[mof(cid)].hs
                                 ELSE mc_hs[cid]]
                  /\ mc_buf' = [cid \in DOMAIN mc_buf \cup mlive |->
                                  IF cid \in mlive THEN mo[mof(cid)].buf
                                  ELSE mc_buf[cid]]
                  /\ mc_last' = [cid \in DOMAIN mc_last \cup mlive |->
                                   IF cid \in mlive THEN mo[mof(cid)].last
                                   ELSE mc_last[cid]]
                  /\ mc_active' = [cid \in DOMAIN mc_active \cup mlive |->
                                     IF cid \in mlive
                                     THEN mo[mof(cid)].active
                                     ELSE mc_active[cid]]
                  /\ mc_sym' = [cid \in mlive |-> mo[mof(cid)].sym]
                  /\ mc_edited' =
                       {cid \in mc_edited :
                          cid \in mlive => mo[mof(cid)].buf # <<>>}
          /\ op' = "track" /\ ev' = out
          /\ since' = st
          /\ unmatched' = Unmatched(out)
          /\ epfires' =
               [g \in GIDS |->
                  IF st[g] = 0 THEN 0
                  ELSE IF \E i \in DOMAIN out : SingleFire(out[i], g)
                  THEN IF epfires[g] = 0 THEN 1 ELSE 2
                  ELSE epfires[g]]
          /\ lastfire' =
               [g \in GIDS |->
                  IF \E i \in DOMAIN out :
                       SingleFire(out[i], g) \/ HoldFire(out[i], g)
                  THEN now ELSE lastfire[g]]
          /\ tog_done' =
               [g \in GIDS |->
                  IF st[g] = 0 THEN FALSE
                  ELSE tog_done[g] \/ act[g]]
          /\ tog_last' =
               [g \in GIDS |->
                  IF act[g] THEN now
                  ELSE tog_last[g]]
          /\ tog_par' =
               [g \in GIDS |->
                  IF act[g] THEN 1 - tog_par[g]
                  ELSE tog_par[g]]
  /\ UNCHANGED <<cam, closed, now, enabled, triggerMode, action, chains,
                 morse_chains>>

(* --------------------------- specifications ---------------------------- *)
\* The runtime state MainWindow.__init__ builds, for a window whose cards
\* hold the trigger modes m, actions a and enable boxes en and whose chain
\* cards are ch; c and n are self.cam and the detector's frame count.
Window(m, a, en, ch, mc, c, n) ==
  /\ cam = c /\ queued = 0 /\ closed = FALSE
  /\ now = StartTime
  /\ cal_n = n /\ fed = n
  /\ cal_s = (IF n = 0 THEN <<>> ELSE [k \in KEYS |-> 0])
  /\ bl = (IF n < CAL_N THEN <<>> ELSE [k \in KEYS |-> 0])
  /\ raw = Zero
  /\ morse_chains = mc
  /\ mc_hs = <<>> /\ mc_buf = <<>> /\ mc_last = <<>> /\ mc_active = <<>>
  /\ mc_sym = <<>> /\ mc_edited = {}
  /\ sm = Zero /\ hs = Zero /\ ta = AllFalse /\ lt = Zero
  /\ hold_active = AllFalse /\ toggle_state = AllFalse /\ repeat_lt = Zero
  /\ enabled = en /\ triggerMode = m /\ action = a
  /\ chains = ch
  /\ chain_state = <<>>
  /\ chain_hs = Zero /\ chain_ta = AllFalse /\ chain_newly = {}
  /\ workers = <<>> /\ down = {} /\ drag_active = FALSE
  /\ chain_counter = Len(ch) + Len(mc) /\ doc = <<>>
  /\ op = "idle" /\ ev = <<>>
  /\ since = Zero /\ unmatched = Zero /\ epfires = Zero /\ lastfire = Zero
  /\ tog_done = AllFalse /\ tog_last = Zero /\ tog_par = Zero
  /\ other_edge = {} /\ late_edge = {}

\* no macro is being executed
SessionWith(m, a, en, ch, mc, c, n) ==
  /\ Window(m, a, en, ch, mc, c, n)
  /\ sms = Smoothing /\ thresholdMax = dtmax /\ brow = NoBrows /\ key_bind = <<>> /\ macro = <<>> /\ trace = <<>>

\* a window with no morse chain cards
Session(m, a, en, ch, c, n) == SessionWith(m, a, en, ch, <<>>, c, n)

\* the gestures whose card has an action bound
Bound == {g \in GIDS : action[g] # "none"}

Unbound == [g \in GIDS |-> "none"]
AllSingle == [g \in GIDS |-> "single"]
AllEnabled == [g \in GIDS |-> TRUE]

\* The card of blink holds an action of kind a in trigger mode m; the
\* other cards have no action.
OneCard(m, a) ==
  Session([AllSingle EXCEPT !["blink"] = m], [Unbound EXCEPT !["blink"] = a],
          AllEnabled, <<>>, "running", CAL_N)

\* A started session whose calibration is complete: blink is bound to a key
\* in one of the trigger modes.
Init == \E m \in TRIGGER_MODES : OneCard(m, "key")

Next ==
  \/ Tick /\ UNCHANGED io
  \/ Stop /\ UNCHANGED io
  \/ Recal /\ UNCHANGED io
  \/ Close /\ UNCHANGED io
  \/ \E b \in BOOLEAN : SetEnabled("blink", b) /\ UNCHANGED io
  \/ FrameNoFace /\ UNCHANGED io
  \/ FrameTracking(Bound, MaxMoving) /\ UNCHANGED io

Spec == Init /\ [][Next]_vars

(* ------------------------ session release (C3) ------------------------- *)
ReleaseHorizon == 100

\* A started, calibrated session with blink in hold mode on a key and smile
\* in toggle mode on the left button.
InitRelease ==
  Session([AllSingle EXCEPT !["blink"] = "hold", !["smile"] = "toggle"],
          [Unbound EXCEPT !["blink"] = "key", !["smile"] = "left_click"],
          AllEnabled, <<>>, "running", CAL_N)

NextRelease ==
  \/ Advance(TimeStep, ReleaseHorizon) /\ UNCHANGED io
  \/ Stop /\ UNCHANGED io
  \/ Recal /\ UNCHANGED io
  \/ Close /\ UNCHANGED io
  \/ FrameTracking(Bound, MaxMoving) /\ UNCHANGED io

SpecRelease == InitRelease /\ [][NextRelease]_vars

\* the hold stops among the requests e that name gesture g
StopsFor(e, g) == {i \in DOMAIN e : Stops(e[i], g)}

\* C3: _stop, _recal and closeEvent each issue, by a direct call, exactly
\* one hold stop for every gesture whose hold_active or toggle_state flag
\* is set and none for the others, and leave both flags false for all
\* gestures; the camera is stopped in the same handler, after the release.
ReleaseOnStopRecalClose ==
  [][op' \in {"stop", "recal", "close"} =>
       /\ \A g \in GIDS :
            /\ Cardinality(StopsFor(ev', g))
                 = (IF hold_active[g] \/ toggle_state[g] THEN 1 ELSE 0)
            /\ \A i \in StopsFor(ev', g) :
                 ev'[i] = Req(g, "hold_stop", action[g], "release", FALSE)
            /\ ~hold_active'[g] /\ ~toggle_state'[g]
       /\ \A i \in DOMAIN ev' : ev'[i].req = "hold_stop"
       /\ op' \in {"stop", "close"} => cam' = "none"]_vars

\* _stop released a held key and a toggled-on button in one call
ReleaseOnStopRecalCloseCase ==
  /\ op = "stop" /\ Len(ev) = 2
  /\ ev[1] = Req("blink", "hold_stop", "key", "release", FALSE)
  /\ ev[2] = Req("smile", "hold_stop", "left_click", "release", FALSE)

(* ------------------------ disabled mid-hold (C4) ----------------------- *)
\* C4: a processed frame that finds a gesture disabled with hold_active set
\* issues one hold stop for it by a direct call and nothing else, clears
\* hold_active, and leaves its dwell timer, armed flag, last fire time,
\* toggle_state and repeat time as they were.
DisabledHoldReleased ==
  [][\A g \in GIDS :
       (op' = "track" /\ ~enabled[g] /\ hold_active[g]) =>
         /\ SelectSeq(ev', LAMBDA e : e.src = g)
              = <<Req(g, "hold_stop", action[g], "disabled", FALSE)>>
         /\ ~hold_active'[g]
         /\ hs'[g] = hs[g] /\ ta'[g] = ta[g] /\ lt'[g] = lt[g]
         /\ toggle_state'[g] = toggle_state[g]
         /\ repeat_lt'[g] = repeat_lt[g]]_vars

\* a frame released the hold of a disabled gesture whose score is still
\* at or above threshold
DisabledHoldReleasedCase ==
  \E g \in GIDS :
    /\ op = "track" /\ ~enabled[g] /\ ~hold_active[g]
    /\ sm[g] >= thresholdMin(g)
    /\ \E i \in DOMAIN ev : ev[i].src = g /\ ev[i].why = "disabled"

(* --------------------------- hold no-leak (C1) ------------------------- *)
\* C1: for a hold-mode gesture bound to a sustain-capable action, a hold
\* start is stopped at the latest when the session stops, so once the
\* camera is stopped and no frame is left to deliver no hold start is
\* unmatched; and no second hold start follows an unmatched one.
HoldNoLeak ==
  \A g \in GIDS :
    (triggerMode[g] = "hold" /\ action[g] \in _HOLDABLE_ACTIONS) =>
      /\ unmatched[g] <= 1
      /\ (~closed /\ cam = "none" /\ queued = 0) => unmatched[g] = 0

(* -------------------------- dwell debounce (C5) ------------------------ *)
\* the requests that are a fire, a hold start or a toggle flip of g
Activations(e, g) ==
  {i \in DOMAIN e :
     e[i].src = g /\ e[i].why \in {"single", "hold", "toggle_on", "toggle_off"}}

\* C5: a frame issues a fire, hold start or toggle flip for a gesture only
\* if, over the processed frames, its smoothed score has been at or above
\* its threshold for at least the hold time.
DwellDebounce ==
  \A g \in GIDS :
    (op = "track" /\ Activations(ev, g) # {}) =>
      since[g] # 0 /\ now - since[g] >= HoldTime

(* ---------------------------- single mode (C6) ------------------------- *)
\* C6: a single-mode gesture fires at most once in one stay of its score
\* at or above threshold, and a fire that follows another one of the same
\* gesture comes more than the cooldown after it.
SingleOncePerEpisode ==
  /\ [](\A g \in GIDS : epfires[g] <= 1)
  /\ [][\A g \in GIDS :
          (lastfire[g] # 0 /\ lastfire'[g] # lastfire[g]) =>
             lastfire'[g] - lastfire[g] > Cooldown]_vars

\* after a fire and a drop the score is up again and has dwelt, and the
\* frame did not fire because the cooldown has not passed
SingleOncePerEpisodeCase ==
  \E g \in GIDS :
    /\ triggerMode[g] = "single" /\ enabled[g]
    /\ op = "track" /\ ev = <<>>
    /\ lastfire[g] # 0 /\ epfires[g] = 0 /\ ~ta[g]
    /\ since[g] # 0 /\ now - since[g] >= HoldTime
    /\ now - lastfire[g] <= Cooldown

(* --------------------------- toggle parity (C7) ------------------------ *)
\* C7: toggle_state of a toggle-mode gesture is its initial value (off)
\* after an even number of activations and the opposite after an odd
\* number, an activation being a flip in a stay of the score at or above
\* threshold that has lasted the hold time, once per stay and more than
\* the cooldown after the previous one (the count restarts when a session
\* handler switches every toggle off).
ToggleParity ==
  \A g \in GIDS :
    triggerMode[g] = "toggle" => toggle_state[g] = (tog_par[g] = 1)

(* ----------------------- gesture chains (C8-C10) ----------------------- *)
ChainHorizon == 400

\* One chain card blink -> smile -> mouth_open bound to a key; the cards of
\* the chain's gestures are unticked by _on_gesture_claimed and pucker's
\* card by the user.  Chain ids are the values of chain_counter, written
\* as names.
ABC ==
  [chain_id |-> "chain0", seq |-> <<"blink", "smile", "mouth_open">>,
   timeout |-> ChainTimeout, action |-> "key"]

InitChain ==
  Session(AllSingle, Unbound, AllFalse, <<ABC>>, "running", CAL_N)

NextChain ==
  \/ Advance(TimeStep, ChainHorizon) /\ UNCHANGED io
  \/ Recal /\ UNCHANGED io
  \/ FrameNoFace /\ UNCHANGED io
  \/ FrameTracking(GIDS, MaxMoving) /\ UNCHANGED io

SpecChain == InitChain /\ [][NextChain]_vars

\* the chain requests among e for the chain cid
Fired(e, cid) == {k \in DOMAIN e : e[k].src = cid /\ e[k].why = "chain"}

\* the entry of chain ch is beyond its timeout at time t
Late(ch, t) ==
  ChainEntry(ch.chain_id).step > 0
    /\ t - ChainEntry(ch.chain_id).last_time > ch.timeout

\* C8: in a frame that finds a chain within its timeout and sees a rising
\* edge of the gesture expected next, the chain moves one step on and
\* records the time, or, when that gesture is the last of the sequence,
\* issues the chain's action exactly once and returns to step 0; the
\* action is issued in no other frame.  So edges of A, B, C, each within
\* the timeout, fire once, whatever other edges come in between.
ChainCompletes ==
  [][op' = "track" =>
       \A i \in LiveChains :
         LET ch == chains[i]
             cs == ChainEntry(ch.chain_id)
             took == ~Late(ch, now) /\ ch.seq[cs.step + 1] \in chain_newly'
             last == cs.step + 1 = Len(ch.seq)
         IN /\ (took /\ last) =>
                 /\ Cardinality(Fired(ev', ch.chain_id)) = 1
                 /\ chain_state'[ch.chain_id] = [step |-> 0, last_time |-> 0]
            /\ (took /\ ~last) =>
                 chain_state'[ch.chain_id]
                   = [step |-> cs.step + 1, last_time |-> now]
            /\ Fired(ev', ch.chain_id) # {} => took /\ last]_vars

\* the chain fired, back at step 0, although an edge of pucker came in
\* after the chain had left step 0
ChainCompletesCase ==
  /\ op = "track" /\ Fired(ev, "chain0") # {}
  /\ "chain0" \in other_edge
  /\ chain_state["chain0"].step = 0
  /\ chain_newly = {"mouth_open"}

\* C9: a frame that finds a chain within its timeout and sees no rising
\* edge of the gesture it expects leaves the chain's step index and
\* last-step time as they were, whatever other edges the frame sees; and a
\* non-zero step index becomes 0 only in a frame that finds the chain beyond
\* its timeout or completes it, or by _recal or _start.
ChainIgnoresOtherEdges ==
  [][/\ op' = "track" =>
          \A i \in LiveChains :
            LET ch == chains[i]
                cs == ChainEntry(ch.chain_id)
            IN (~Late(ch, now) /\ ch.seq[cs.step + 1] \notin chain_newly')
                 => chain_state'[ch.chain_id] = cs
     /\ \A i \in LiveChains :
          LET ch == chains[i]
              cs == ChainEntry(ch.chain_id)
          IN (cs.step > 0 /\ (ch.chain_id \notin DOMAIN chain_state'
                               \/ chain_state'[ch.chain_id].step = 0))
               => \/ op' \in {"recal", "start"}
                  \/ op' = "track"
                       /\ (Late(ch, now) \/ Fired(ev', ch.chain_id) # {})]_vars

\* at step 1 (smile expected) a frame saw the rising edge of mouth_open and
\* the chain stayed at step 1 with the time of its first step
ChainIgnoresOtherEdgesCase ==
  /\ op = "track" /\ chain_newly = {"mouth_open"}
  /\ "chain0" \in DOMAIN chain_state
  /\ chain_state["chain0"].step = 1
  /\ chain_state["chain0"].last_time < now

\* C10: a frame that finds a chain beyond its timeout (step > 0, more than
\* the timeout since the last accepted step) restarts it from step 0 before
\* looking at the edges: it ends at step 1 if the first gesture of the
\* sequence has a rising edge and at step 0 otherwise, and fires nothing.
ChainTimesOut ==
  [][op' = "track" =>
       \A i \in LiveChains :
         LET ch == chains[i]
         IN Late(ch, now) =>
              /\ chain_state'[ch.chain_id] =
                   (IF ch.seq[1] \in chain_newly'
                    THEN [step |-> 1, last_time |-> now]
                    ELSE [step |-> 0, last_time |-> 0])
              /\ Fired(ev', ch.chain_id) = {}]_vars

\* the gesture the chain had been waiting for rose after the timeout and
\* the chain is at step 0
ChainTimesOutCase ==
  /\ op = "track" /\ "chain0" \in late_edge
  /\ chain_state["chain0"].step = 0

(* ------------------- workers and synthesized input (C2) ---------------- *)
IOHorizon == 100
MaxWorkers == 2

\* the key or button a sustain-capable action presses: execute_key_down /
\* execute_key_up for 'key' (one bound key), _MOUSE_DOWN_FLAGS /
\* _MOUSE_UP_FLAGS for the clicks; nothing for any other action
HoldInput(act) ==
  CASE act = "key" -> {"key"}
    [] act = "left_click" -> {"left"}
    [] act = "right_click" -> {"right"}
    [] act = "middle_click" -> {"middle"}
    [] OTHER -> {}

\* execute_hold_stop called by the handler itself, for each such request
\* of e in turn
AfterDirectStops(d, e) ==
  d \ UNION {HoldInput(e[i].act) :
               i \in {j \in DOMAIN e : ~e[j].thread /\ e[j].req = "hold_stop"}}

\* What a handler of the main thread does to the workers and the pressed
\* inputs: it runs its direct hold stops and starts one thread per other
\* request.
Dispatch ==
  /\ workers' = workers \o SelectSeq(ev', LAMBDA e : e.thread)
  /\ Len(workers') <= MaxWorkers
  /\ down' = AfterDirectStops(down, ev')
  /\ drag_active' = drag_active
  /\ UNCHANGED <<chain_counter, doc, sms, thresholdMax, brow, key_bind, macro, trace>>

\* the workers without the i-th
Without(i) == [j \in 1..(Len(workers) - 1) |->
                 IF j < i THEN workers[j] ELSE workers[j + 1]]

\* A started thread runs: execute_hold_start, execute_hold_stop, or
\* execute_action, whose key press is a key down, a sleep and a key up,
\* whose drag_toggle presses or releases the left button by _drag_active and
\* whose clicks send down and up in one send_input call.
RunWorker(i) ==
  LET w == workers[i] IN
  /\ CASE w.req = "hold_start" ->
            /\ down' = down \cup HoldInput(w.act)
            /\ workers' = Without(i) /\ drag_active' = drag_active
       [] w.req = "hold_stop" ->
            /\ down' = down \ HoldInput(w.act)
            /\ workers' = Without(i) /\ drag_active' = drag_active
       [] w.req = "action" /\ w.act = "key" ->
            /\ down' = down \cup {"key"}
            /\ workers' = [workers EXCEPT ![i].req = "key_up"]
            /\ drag_active' = drag_active
       [] w.req = "key_up" ->
            /\ down' = down \ {"key"}
            /\ workers' = Without(i) /\ drag_active' = drag_active
       [] w.req = "action" /\ w.act = "drag_toggle" ->
            /\ down' = IF drag_active THEN down \ {"left"}
                       ELSE down \cup {"left"}
            /\ drag_active' = ~drag_active
            /\ workers' = Without(i)
       [] OTHER ->
            /\ workers' = Without(i)
            /\ UNCHANGED <<down, drag_active>>
  /\ UNCHANGED <<core, obs, chain_counter, doc, sms, thresholdMax, brow, key_bind,
                 macro, trace>>

\* A started, calibrated session with blink in hold mode on a key, in
\* single mode on a key, or in single mode on drag_toggle.
InitIO ==
  \/ OneCard("hold", "key")
  \/ OneCard("single", "key")
  \/ OneCard("single", "drag_toggle")

NextIO ==
  \/ Advance(TimeStep, IOHorizon) /\ Dispatch
  \/ Stop /\ Dispatch
  \/ Close /\ Dispatch
  \/ FrameTracking(Bound, MaxMoving) /\ Dispatch
  \/ \E i \in DOMAIN workers : RunWorker(i)

SpecIO == InitIO /\ [][NextIO]_vars

\* C2: once _stop or closeEvent has returned (no frame has been handled
\* since) and every started worker has finished, no key or button the
\* program pressed is still pressed.
NothingPressedAfterStop ==
  (op \in {"stop", "close"} /\ workers = <<>>) => down = {}

(* --------------------- edits of a chain's sequence (C11) --------------- *)
EditHorizon == 100

\* the sequence s without its k-th entry
Removed(s, k) == [j \in 1..(Len(s) - 1) |-> IF j < k THEN s[j] ELSE s[j + 1]]

\* the gestures some chain card still uses
Claimed(cs) == UNION {{cs[i].seq[j] : j \in DOMAIN cs[i].seq} : i \in DOMAIN cs}

\* get_all_gesture_ids over the morse chain cards ms
MorseClaimed(ms) == {ms[i].gesture : i \in DOMAIN ms} \ {""}

\* _on_gesture_released(gid) with the chain cards cs and morse chain cards
\* ms in self.chains and self.morse_chains: the enable boxes it leaves
on_gesture_released(en, gid, cs, ms) ==
  IF gid = "" \/ gid \in Claimed(cs) \cup MorseClaimed(ms) THEN en
  ELSE [en EXCEPT ![gid] = TRUE]

\* GestureChainCard._remove_gesture_step: the remove button of the k-th
\* step row of chain i; gesture_released ticks the gesture's card again
\* unless a chain still uses the gesture (_on_gesture_released)
RemoveStep(i, k) ==
  /\ ~closed
  /\ LET gid == chains[i].seq[k]
         after == [chains EXCEPT ![i].seq = Removed(@, k)]
     IN /\ chains' = after
        /\ enabled' = on_gesture_released(enabled, gid, after, morse_chains)
  /\ Idle
  /\ UNCHANGED <<cam, queued, closed, now, cal_n, sm, hs, ta, lt,
                 hold_active, toggle_state, repeat_lt, triggerMode, action,
                 chain_state, chain_hs, chain_ta, chain_newly, obs,
                 cal_s, bl, morse>>

NextChainEdit ==
  \/ Advance(TimeStep, EditHorizon) /\ UNCHANGED io
  \/ FrameNoFace /\ UNCHANGED io
  \/ FrameTracking(GIDS, MaxMoving) /\ UNCHANGED io
  \/ \E i \in DOMAIN chains : \E k \in DOMAIN chains[i].seq :
       RemoveStep(i, k) /\ UNCHANGED io

SpecChainEdit == InitChain /\ [][NextChainEdit]_vars

\* C11: the step index of every chain is within [0, len(sequence)] at all
\* times and, for a chain that has steps, strictly below len(sequence)
\* after every processed frame.
ChainIndexInRange ==
  \A i \in DOMAIN chains :
    LET cs == ChainEntry(chains[i].chain_id) IN
    /\ cs.step >= 0 /\ cs.step <= Len(chains[i].seq)
    /\ (op = "track" /\ chains[i].seq # <<>>) => cs.step < Len(chains[i].seq)


(* ----------------------- morse chains (C12-C15) ------------------------ *)
ShortMs == 100
LongMs == 200
MorseTimeout == 300
MorseHorizon == 500

\* One morse chain card on blink: short-long presses a key, long-short-short
\* clicks; one row has no pattern yet and one repeats short-long with
\* another action.  The card of blink is unticked by _on_gesture_claimed,
\* the other cards by the user.
SL ==
  [chain_id |-> "morse0", gesture |-> "blink", short_ms |-> ShortMs,
   long_ms |-> LongMs, timeout |-> MorseTimeout,
   patterns |-> <<[pattern |-> <<"S", "L">>, action |-> "key"],
                  [pattern |-> <<>>, action |-> "scroll_up"],
                  [pattern |-> <<"S", "L">>, action |-> "right_click"],
                  [pattern |-> <<"L", "S", "S">>, action |-> "left_click"]>>]

InitMorse ==
  SessionWith(AllSingle, Unbound, AllFalse, <<>>, <<SL>>, "running", CAL_N)

NextMorse ==
  \/ Advance(TimeStep, MorseHorizon) /\ UNCHANGED io
  \/ FrameNoFace /\ UNCHANGED io
  \/ FrameTracking({"blink"}, MaxMoving) /\ UNCHANGED io

SpecMorse == InitMorse /\ [][NextMorse]_vars

\* the symbols the claims expect of a hold of held ms
Expected(held, chain) ==
  IF held < chain.short_ms THEN <<>>
  ELSE IF held < chain.long_ms THEN <<"S">> ELSE <<"L">>

\* C12: in a processed frame in which the bound gesture falls below its
\* threshold after a stay of held ms at or above it, nothing is appended to
\* the buffer if held < short, Short if short <= held < long and Long if
\* held >= long: exactly one symbol for a qualifying hold; no other frame
\* appends a symbol.
MorseClassifies ==
  [][op' = "track" =>
       \A i \in LiveMorse :
         LET chain == morse_chains[i]
             cid == chain.chain_id
             g == chain.gesture
             buf0 == MorseEntry(cid).buf
             fell == since[g] # 0 /\ since'[g] = 0
             want == IF fell THEN Expected(now' - since[g], chain) ELSE <<>>
         IN /\ mc_sym'[cid] = want
            /\ fell => mc_buf'[cid] \in {buf0 \o want, <<>>}
            /\ (fell /\ want = <<>>) => mc_buf'[cid] = buf0]_vars

\* a hold of at least the short and less than the long threshold has just
\* ended and its Short is the buffer
MorseClassifiesCase ==
  /\ op = "track"
  /\ "morse0" \in DOMAIN mc_sym
  /\ mc_sym["morse0"] = <<"S">>
  /\ mc_buf["morse0"] = <<"S">>
  /\ mc_last["morse0"] = now

\* the requests of e that a chain or morse chain card issued
From(e, cid) == {k \in DOMAIN e : e[k].src = cid}

\* C13: when the buffer after an append equals a configured pattern, the
\* frame issues exactly one action for the chain, that of the first row in
\* configured order whose pattern equals the buffer, and leaves the buffer
\* empty; a frame without such a match issues none.
MorseFiresFirstMatch ==
  [][op' = "track" =>
       \A i \in LiveMorse :
         LET chain == morse_chains[i]
             cid == chain.chain_id
             pats == get_patterns(chain)
             after == MorseEntry(cid).buf \o mc_sym'[cid]
             hit == {k \in DOMAIN pats : pats[k].pattern = after}
             first == CHOOSE k \in hit : \A j \in hit : k <= j
         IN IF mc_sym'[cid] # <<>> /\ hit # {}
            THEN /\ Cardinality(From(ev', cid)) = 1
                 /\ \A k \in From(ev', cid) :
                      /\ ev'[k].req = "action"
                      /\ ev'[k].act = pats[first].action
                 /\ mc_buf'[cid] = <<>>
            ELSE From(ev', cid) = {}]_vars

\* a Long after a Short has just completed short-long: the key press was
\* requested and the buffer is empty
MorseFiresFirstMatchCase ==
  /\ op = "track"
  /\ "morse0" \in DOMAIN mc_sym
  /\ mc_sym["morse0"] = <<"L">>
  /\ \E k \in From(ev, "morse0") : ev[k].act = "key"
  /\ mc_buf["morse0"] = <<>>

\* C14: the buffer of every morse chain is empty or a proper prefix of at
\* least one configured pattern.
MorsePrefixInvariant ==
  \A i \in LiveMorse :
    LET chain == morse_chains[i]
        buf == MorseEntry(chain.chain_id).buf
        pats == get_patterns(chain)
    IN \/ buf = <<>>
       \/ \E k \in DOMAIN pats :
            /\ Len(buf) < Len(pats[k].pattern)
            /\ SubSeq(pats[k].pattern, 1, Len(buf)) = buf

\* a second Short after a Short has just been appended: short-short starts
\* no pattern and the buffer was cleared without an action
MorsePrefixInvariantCase ==
  /\ op = "track"
  /\ "morse0" \in DOMAIN mc_sym
  /\ mc_sym["morse0"] = <<"S">>
  /\ mc_buf["morse0"] = <<>>
  /\ ev = <<>>

InitCal == Session(AllSingle, Unbound, AllEnabled, <<>>, "none", 0)

NextCal ==
  \/ Start /\ UNCHANGED io
  \/ Stop /\ UNCHANGED io
  \/ Recal /\ UNCHANGED io
  \/ FrameNoFace /\ UNCHANGED io
  \/ FrameCalibrating /\ UNCHANGED io
  \/ FrameTracking({"smile"}, MaxMoving) /\ UNCHANGED io

SpecCal == InitCal /\ [][NextCal]_vars

\* C16: calibrated (cal_n >= CAL_N) is true exactly when CAL_N = 45 face
\* frames have been given to compute since the last reset, and as long as
\* fewer have been given every delta-based score compute returned is 0.
CalibratedAt45 ==
  /\ (cal_n >= CAL_N) <=> (fed >= CAL_N)
  /\ fed < CAL_N => \A k \in KEYS : raw[k] = 0

\* the 45th frame since the reset has just been processed: the baseline is
\* the mean of the 45 frames and a score is computed against it
CalibratedAt45Case ==
  /\ op = "track" /\ fed = CAL_N /\ cal_n = CAL_N
  /\ cal_s["smile"] = 44 * CAL_N /\ bl["smile"] = 44
  /\ raw["smile"] = 1

\* C17: once calibrated, a frame leaves the frame counter and every
\* baseline value unchanged and the counter never exceeds 45; the resets of
\* _start and _recal set the counter to 0 and discard the baseline.
CalibrationLatch ==
  [][/\ cal_n' <= CAL_N
     /\ (cal_n >= CAL_N /\ op' \in {"track", "calib", "noface"}) =>
          (cal_n' = cal_n /\ bl' = bl)
     /\ op' \in {"start", "recal"} =>
          (cal_n' = 0 /\ bl' = <<>> /\ cal_s' = <<>>)]_vars

\* a frame processed after the calibration was complete: smile scores
\* RawHigh against a baseline that the 45th frame cannot score it against
CalibrationLatchCase ==
  /\ op = "track" /\ cal_n = CAL_N
  /\ bl["smile"] = 1 /\ raw["smile"] = RawHigh

\* C18: a frame with no face leaves the calibration counter, the sums and
\* the baseline unchanged.
NoFaceKeepsCalibration ==
  [][op' = "noface" => (cal_n' = cal_n /\ cal_s' = cal_s /\ bl' = bl)]_vars

\* a frame with no face in the middle of a calibration
NoFaceKeepsCalibrationCase ==
  /\ op = "noface" /\ cam = "running"
  /\ cal_n = 20 /\ cal_s["smile"] = 3 * CAL_N /\ bl = <<>>

(* ------------------------ frames without a face (C19) ------------------ *)
\* C19: a frame with no face has, on the trigger state of every gesture,
\* the effect of a processed frame in which every score is below threshold:
\* the dwell timer and the armed flag are reset and a gesture in hold mode
\* whose hold is active gets its hold stop and has hold_active cleared.
NoFaceAllInactive ==
  [][op' = "noface" =>
       \A g \in GIDS :
         LET r == Trigger(g, 0, now) IN
         /\ hs'[g] = r.hs /\ ta'[g] = r.ta
         /\ hold_active'[g] = r.hold_active
         /\ \A k \in DOMAIN r.out :
              \E j \in DOMAIN ev' : ev'[j] = r.out[k]]_vars

(* ------------------------------ macros (C20) --------------------------- *)
MaxParts == 3
MacroPause == 50    \* time.sleep(0.05) of execute_macro
KeyPressMs == 50    \* time.sleep(0.05) of execute_key_press

\* A macro string is written as its parts between the semicolons, each part
\* as its fields between the colons: key:a;delay:10 is
\* <<<<"key", "a">>, <<"delay", "10">>>>, an empty part is <<>>.
Parts ==
  {<<>>, <<"key", "a">>, <<"key", "b">>, <<"key", "nokey">>,
   <<"mouse", "left_click">>, <<"delay", "10">>, <<"delay", "x">>,
   <<"hold", "a", "30">>, <<"hold", "b">>}

\* the parts above and three more: a delay and a hold whose number int()
\* accepts and time.sleep() refuses, and a part with an unknown prefix
PartsAll ==
  Parts \cup {<<"delay", "-5">>, <<"hold", "a", "-5">>, <<"sound", "x">>}

\* int(text): the number, for the texts that are numbers
IsInt(t) == t \in {"10", "30", "-5"}
IntOf(t) == IF t = "10" THEN 10 ELSE IF t = "30" THEN 30 ELSE -5

Step(type, key, ms) == [type |-> type, key |-> key, ms |-> ms]

\* one pass of the loop of parse_macro: the step appended for a part, if any
ParsePart(part) ==
  IF part = <<>> THEN <<>>
  ELSE IF part[1] = "key" THEN <<Step("key", part[2], 0)>>
  ELSE IF part[1] = "hold"
  THEN IF Len(part) = 3
       THEN IF IsInt(part[3])
            THEN <<Step("hold", part[2], IntOf(part[3]))>> ELSE <<>>
       ELSE <<Step("key", part[2], 0)>>
  ELSE IF part[1] = "mouse" THEN <<Step("mouse", part[2], 0)>>
  ELSE IF part[1] = "delay"
  THEN IF IsInt(part[2]) THEN <<Step("delay", "", IntOf(part[2]))>> ELSE <<>>
  ELSE <<>>

parse_macro(m) == Flat([i \in DOMAIN m |-> ParsePart(m[i])])

\* A binding string is written as its tokens between the plus signs, each
\* stripped of its blanks: ctrl+a is <<"ctrl", "a">>; the empty string is
\* <<>>.  A key field of a macro has no plus sign: it is one token.
split(key) == <<key>>

\* str.lower, on the tokens of the model
lower(t) == IF t = "Shift" THEN "shift" ELSE t

\* VK_CODES.get(t, 0) and MODIFIER_VK, on the tokens of the model
VK_CODES(t) == IF t = "a" THEN 65 ELSE IF t = "b" THEN 66 ELSE 0
MODIFIER_VK(t) == IF t = "ctrl" THEN 162 ELSE IF t = "shift" THEN 160 ELSE 0

\* the tokens of one character; "eacute" stands for the letter e with an
\* acute accent, which no key of the US layout gives
OneChar == {"a", "b", "!", "eacute"}

\* user32.VkKeyScanW(ord(c)): the key code in the low byte and the shift
\* state in the high byte; -1 if no key of the layout gives the character
VkKeyScanW(c) == IF c = "!" THEN 305 ELSE -1

\* parse_key: the codes of the modifiers among the tokens before the last,
\* in their order, and the code of the last token, 0 if it has none
parse_key(parts) ==
  LET key_part == parts[Len(parts)]
      front == SubSeq(parts, 1, Len(parts) - 1)
      named == SelectSeq(front, LAMBDA t : MODIFIER_VK(lower(t)) # 0)
      vk0 == VK_CODES(lower(key_part))
  IN [mods |-> [i \in DOMAIN named |-> MODIFIER_VK(lower(named[i]))],
      vk |-> IF vk0 = 0 /\ key_part \in OneChar
             THEN VkKeyScanW(key_part) % 256 ELSE vk0]

\* An entry of the trace: a key down or up, a mouse input or a sleep, the
\* step that made it and whether it is the pause execute_macro inserts.
Event(e, key, ms, i, auto) ==
  [e |-> e, key |-> key, vk |-> 0, ms |-> ms, step |-> i, auto |-> auto]

\* send_input(make_key_input(vk, key_up))
KeyInput(e, vk, i) ==
  [e |-> e, key |-> "", vk |-> vk, ms |-> 0, step |-> i, auto |-> FALSE]

\* variant: the modifiers are released in the order they were pressed
reversedSame(s) == s

reversed(s) == [i \in DOMAIN s |-> s[Len(s) + 1 - i]]

\* for m in mods: send_input(make_key_input(m))
\* send_input(make_key_input(vk))
KeysDown(p, i) ==
  [k \in DOMAIN p.mods |-> KeyInput("down", p.mods[k], i)]
    \o <<KeyInput("down", p.vk, i)>>

\* send_input(make_key_input(vk, True))
\* for m in reversed(mods): send_input(make_key_input(m, True))
KeysUp(p, i) ==
  LET r == reversed(p.mods) IN
  <<KeyInput("up", p.vk, i)>>
    \o [k \in DOMAIN r |-> KeyInput("up", r[k], i)]

execute_key_press(key, i) ==
  IF key = <<>> THEN <<>>
  ELSE LET p == parse_key(key) IN
       IF p.vk = 0 THEN <<>>
       ELSE KeysDown(p, i) \o <<Event("sleep", "", KeyPressMs, i, FALSE)>>
              \o KeysUp(p, i)

execute_key_down(key, i) ==
  IF key = <<>> THEN <<>>
  ELSE LET p == parse_key(key) IN
       IF p.vk = 0 THEN <<>> ELSE KeysDown(p, i)

execute_key_up(key, i) ==
  IF key = <<>> THEN <<>>
  ELSE LET p == parse_key(key) IN
       IF p.vk = 0 THEN <<>> ELSE KeysUp(p, i)

\* the hold step of execute_macro: keys down, sleep, keys up; nothing for
\* a key without a code.  A sleep of a negative length raises ValueError:
\* the keys are down and stay down.
Pressed(key, ms, i) ==
  LET p == parse_key(split(key)) IN
  IF p.vk = 0 THEN <<>>
  ELSE IF ms < 0 THEN KeysDown(p, i)
  ELSE KeysDown(p, i) \o <<Event("sleep", "", ms, i, FALSE)>> \o KeysUp(p, i)

\* variant: a pause before every step but the first
AutoPauseAlways(prev_type, type, i) ==
  IF prev_type # ""
  THEN <<Event("sleep", "", MacroPause, i, TRUE)>> ELSE <<>>

\* if prev_type in ('mouse','key') and step[0] in ('mouse','key'):
\*     time.sleep(0.05)
AutoPause(prev_type, type, i) ==
  IF prev_type \in {"mouse", "key"} /\ type \in {"mouse", "key"}
  THEN <<Event("sleep", "", MacroPause, i, TRUE)>> ELSE <<>>

\* the body of the loop of execute_macro after the pause, for step i
StepEvents(st, i) ==
  IF st.type = "key" THEN execute_key_press(split(st.key), i)
  ELSE IF st.type = "mouse" THEN <<Event("mouse", st.key, 0, i, FALSE)>>
  ELSE IF st.type = "delay"
  THEN IF st.ms < 0 THEN <<>> ELSE <<Event("sleep", "", st.ms, i, FALSE)>>
  ELSE Pressed(st.key, st.ms, i)

\* time.sleep(step / 1000.0) raises ValueError for a negative length; the
\* exception ends execute_macro, which catches nothing
Raises(st) ==
  \/ st.type = "delay" /\ st.ms < 0
  \/ st.type = "hold" /\ parse_key(split(st.key)).vk # 0 /\ st.ms < 0

\* the steps execute_macro gets to: all, or those up to the first that raises
Reached(steps) ==
  LET bad == {i \in DOMAIN steps : Raises(steps[i])}
  IN IF bad = {} THEN DOMAIN steps
     ELSE 1..(CHOOSE i \in bad : \A j \in bad : i <= j)

execute_macro(m) ==
  LET steps == parse_macro(m) IN
  Flat([i \in DOMAIN steps |->
          IF i \in Reached(steps)
          THEN AutoPause(IF i = 1 THEN "" ELSE steps[i - 1].type,
                         steps[i].type, i)
               \o StepEvents(steps[i], i)
          ELSE <<>>])

\* a worker thread runs execute_macro on the macro string
RunMacro ==
  /\ op = "idle"
  /\ op' = "macro" /\ ev' = <<>>
  /\ trace' = execute_macro(macro)
  /\ UNCHANGED <<cam, queued, closed, now, cal_n, cal_s, bl, sm, hs, ta, lt,
                 hold_active, toggle_state, repeat_lt, enabled, triggerMode,
                 action, chains, chain_state, chain_hs, chain_ta,
                 chain_newly, morse, obs, workers, down, drag_active,
                 chain_counter, doc, sms, thresholdMax, brow, key_bind, macro>>

\* the constructed window and a macro string of up to MaxParts parts
InitMacro ==
  /\ Window(AllSingle, Unbound, AllEnabled, <<>>, <<>>, "none", 0)
  /\ sms = Smoothing /\ thresholdMax = dtmax /\ brow = NoBrows /\ key_bind = <<>>
  /\ macro \in UNION {[1..n -> Parts] : n \in 1..MaxParts}
  /\ trace = <<>>

NextMacro == RunMacro

SpecMacro == InitMacro /\ [][NextMacro]_vars

\* C20: the trace of an executed macro holds the entries of its steps in
\* listed order; between two consecutive steps that are both key or mouse
\* steps there is an inserted pause of at least 50 ms, after the entries of
\* the first and before those of the second; no pause is inserted before
\* or after a delay step, whose only sleep is its own.
MacroSpacing ==
  op = "macro" =>
    LET steps == parse_macro(macro)
        own(i) == {k \in DOMAIN trace : trace[k].step = i /\ ~trace[k].auto}
        ins(i) == {k \in DOMAIN trace : trace[k].step = i /\ trace[k].auto}
        keyish(i) == steps[i].type \in {"key", "mouse"}
    IN /\ \A k \in DOMAIN trace : trace[k].step \in DOMAIN steps
       /\ \A k, j \in DOMAIN trace :
            k < j => trace[k].step <= trace[j].step
       /\ \A i \in DOMAIN steps :
            /\ steps[i].type = "key" /\ VK_CODES(steps[i].key) # 0 =>
                 \E k \in own(i) :
                   /\ own(i) = {k, k + 1, k + 2}
                   /\ trace[k].e = "down"
                   /\ trace[k].vk = VK_CODES(steps[i].key)
                   /\ trace[k + 2].e = "up"
                   /\ trace[k + 2].vk = VK_CODES(steps[i].key)
            /\ steps[i].type = "mouse" =>
                 \E k \in own(i) : own(i) = {k} /\ trace[k].e = "mouse"
            /\ steps[i].type = "delay" =>
                 \E k \in own(i) :
                   /\ own(i) = {k}
                   /\ trace[k].e = "sleep" /\ trace[k].ms = steps[i].ms
       /\ \A i \in DOMAIN steps :
            IF i > 1 /\ keyish(i - 1) /\ keyish(i)
            THEN \E k \in ins(i) :
                   /\ trace[k].e = "sleep" /\ trace[k].ms >= 50
                   /\ \A j \in own(i - 1) : j < k
                   /\ \A j \in own(i) : k < j
            ELSE (steps[i].type = "delay"
                  \/ (i > 1 /\ steps[i - 1].type = "delay")) => ins(i) = {}

\* key:a;key:b has run: press a, release a, pause, press b, release b
MacroSpacingCase ==
  /\ op = "macro"
  /\ macro = <<<<"key", "a">>, <<"key", "b">>>>
  /\ Len(trace) = 7
  /\ trace[4].auto /\ trace[4].ms = MacroPause
  /\ trace[5].e = "down" /\ trace[5].vk = VK_CODES("b")

(* ------------------------ macro error tolerance (C21) ------------------ *)
\* the constructed window and a macro string of up to MaxParts parts, the
\* parts with a refused duration and with an unknown prefix among them
InitMacroAll ==
  /\ Window(AllSingle, Unbound, AllEnabled, <<>>, <<>>, "none", 0)
  /\ sms = Smoothing /\ thresholdMax = dtmax /\ brow = NoBrows /\ key_bind = <<>>
  /\ macro \in UNION {[1..n -> PartsAll] : n \in 1..MaxParts}
  /\ trace = <<>>

SpecMacroAll == InitMacroAll /\ [][NextMacro]_vars

\* a part that is to contribute a step: a known prefix and, where the part
\* has a number, a number that int() accepts
WellFormed(part) ==
  /\ part # <<>>
  /\ part[1] \in {"key", "hold", "mouse", "delay"}
  /\ part[1] = "delay" => IsInt(part[2])
  /\ (part[1] = "hold" /\ Len(part) = 3) => IsInt(part[3])

\* C21: a part with an unknown prefix or a number that does not parse
\* contributes no step, every other part exactly one, in the order of the
\* parts; and execution gets to every step: each mouse step, each key or
\* hold step with a resolvable key and each delay step of the macro has
\* its entry in the trace or, where its duration is refused, at least does
\* not keep the steps after it from running.
MacroRunsEveryStep ==
  op = "macro" =>
    LET steps == parse_macro(macro)
        good == {i \in DOMAIN macro : WellFormed(macro[i])}
        nth(i) == Cardinality({j \in good : j <= i})
        own(i) == {k \in DOMAIN trace : trace[k].step = i /\ ~trace[k].auto}
        valid(i) == (steps[i].type \in {"delay", "hold"}) => steps[i].ms >= 0
        emits(i) == \/ steps[i].type \in {"mouse", "delay"}
                    \/ VK_CODES(steps[i].key) # 0
    IN /\ Len(steps) = Cardinality(good)
       /\ \A i \in good :
            steps[nth(i)].type =
              (IF macro[i][1] = "hold" /\ Len(macro[i]) = 2 THEN "key"
               ELSE macro[i][1])
       /\ \A i \in DOMAIN steps : (valid(i) /\ emits(i)) => own(i) # {}

(* ------------------------- key bindings (C22, C23) --------------------- *)
MaxTokens == 3

\* the tokens of the binding strings: two modifiers, one of them written
\* with a capital, a key of the table, a name the table does not have, a
\* character no key gives and a character VkKeyScanW finds a key for
Tokens == {"ctrl", "Shift", "a", "nokey", "eacute", "!"}
Bindings == UNION {[1..n -> Tokens] : n \in 0..MaxTokens}

\* a macro of one key step or one hold step
KeyMacros ==
  {<<<<"key", t>>>> : t \in {"a", "nokey", "eacute"}}
    \cup {<<<<"hold", t, "30">>>> : t \in {"a", "nokey", "eacute"}}

\* a call of one of the key functions on the binding, from a worker thread
\* (execute_action, execute_hold_start) or from the main thread
\* (execute_hold_stop)
KeyCall(name, events) ==
  /\ op = "idle"
  /\ op' = name /\ ev' = <<>>
  /\ trace' = events
  /\ UNCHANGED <<cam, queued, closed, now, cal_n, cal_s, bl, sm, hs, ta, lt,
                 hold_active, toggle_state, repeat_lt, enabled, triggerMode,
                 action, chains, chain_state, chain_hs, chain_ta,
                 chain_newly, morse, obs, workers, down, drag_active,
                 chain_counter, doc, sms, thresholdMax, brow, key_bind, macro>>

KeyPress == KeyCall("key_press", execute_key_press(key_bind, 0))
KeyDown == KeyCall("key_down", execute_key_down(key_bind, 0))
KeyUp == KeyCall("key_up", execute_key_up(key_bind, 0))

InitKey ==
  /\ Window(AllSingle, Unbound, AllEnabled, <<>>, <<>>, "none", 0)
  /\ sms = Smoothing /\ thresholdMax = dtmax /\ brow = NoBrows
  /\ key_bind \in Bindings
  /\ macro \in KeyMacros
  /\ trace = <<>>

NextKey == KeyPress \/ KeyDown \/ KeyUp \/ RunMacro

SpecKey == InitKey /\ [][NextKey]_vars

\* the key token names a key: the table has it, or it is one character
\* that a key of the layout gives
Resolvable(t) ==
  \/ VK_CODES(lower(t)) # 0
  \/ t \in OneChar /\ VkKeyScanW(t) # -1

\* C22: a key press on a binding with a resolvable key sends a key down
\* for each listed modifier in the listed order, a key down for the key, a
\* pause of at least 50 ms, a key up for the key and a key up for each
\* modifier in reverse order: the entry j from the front is a key down and
\* the entry j from the back is the key up of the same code.
KeyPressLifo ==
  (/\ op = "key_press" /\ key_bind # <<>>
   /\ Resolvable(key_bind[Len(key_bind)])) =>
    LET front == SubSeq(key_bind, 1, Len(key_bind) - 1)
        listed == SelectSeq(front, LAMBDA t : lower(t) \in {"ctrl", "shift"})
        k == Len(listed)
        n == Len(trace)
    IN /\ n = 2 * k + 3
       /\ \A j \in 1..k :
            /\ trace[j].e = "down"
            /\ trace[j].vk = MODIFIER_VK(lower(listed[j]))
       /\ trace[k + 1].e = "down" /\ trace[k + 1].vk # 0
       /\ trace[k + 2].e = "sleep" /\ trace[k + 2].ms >= 50
       /\ \A j \in 1..(k + 1) :
            /\ trace[n + 1 - j].e = "up"
            /\ trace[n + 1 - j].vk = trace[j].vk

\* ctrl+Shift+a was pressed: ctrl is pressed first and released last
KeyPressLifoCase ==
  /\ op = "key_press"
  /\ key_bind = <<"ctrl", "Shift", "a">>
  /\ Len(trace) = 7
  /\ trace[1].vk = 162 /\ trace[2].vk = 160 /\ trace[3].vk = 65
  /\ trace[6].vk = 160 /\ trace[7].vk = 162 /\ trace[7].e = "up"

\* C23: a binding whose key token cannot be resolved is a no-op for a key
\* press, a key down (hold start), a key up (hold stop) and a key or hold
\* step of a macro: nothing is sent, not for its modifiers either.
UnresolvableNoOp ==
  /\ (/\ op \in {"key_press", "key_down", "key_up"} /\ key_bind # <<>>
      /\ ~Resolvable(key_bind[Len(key_bind)])) => trace = <<>>
  /\ (op = "macro" /\ ~Resolvable(macro[1][2])) => trace = <<>>

(* ------------------- configuration documents (C24, C25) ---------------- *)
MaxCards == 2
MaxSteps == 2
TimeoutDefault == 1500   \* self.timeout_sl.setValue(1500) of a new chain card

\* chain ids are the values of chain_counter, written as names
ChainName(n) ==
  IF n = 0 THEN "chain0" ELSE IF n = 1 THEN "chain1"
  ELSE IF n = 2 THEN "chain2" ELSE "chain3"

\* QSlider.setValue on a slider of the range lo..hi
setValue(v, lo, hi) == IF v < lo THEN lo ELSE IF v > hi THEN hi ELSE v

\* the document _exp writes, with the fields of the cards the model keeps:
\* get_state of every gesture card, chain card and morse chain card.  The
\* field numeric of a chain entry says that its timeout is a JSON number,
\* as every timeout _exp writes is.
Exported ==
  [gestures |->
     [g \in GIDS |-> [enabled |-> enabled[g], action |-> action[g],
                      triggerMode |-> triggerMode[g]]],
   chains |->
     [i \in DOMAIN chains |->
        [gestures |-> chains[i].seq, timeout |-> chains[i].timeout,
         action |-> chains[i].action, numeric |-> TRUE]],
   morse_chains |->
     [i \in DOMAIN morse_chains |->
        [gesture |-> morse_chains[i].gesture,
         short_ms |-> morse_chains[i].short_ms,
         long_ms |-> morse_chains[i].long_ms,
         timeout |-> morse_chains[i].timeout,
         patterns |-> morse_chains[i].patterns]]]

\* _exp: the export button
Export ==
  /\ ~closed
  /\ doc' = <<Exported>>
  /\ op' = "export" /\ ev' = <<>>
  /\ UNCHANGED <<cam, queued, closed, now, cal_n, cal_s, bl, sm, hs, ta, lt,
                 hold_active, toggle_state, repeat_lt, enabled, triggerMode,
                 action, chains, chain_state, chain_hs, chain_ta,
                 chain_newly, morse, obs, chain_counter>>

\* _add_chain: the button that adds an empty chain card
AddChain ==
  /\ ~closed
  /\ chain_counter < MaxCards
  /\ chains' = Append(chains, [chain_id |-> ChainName(chain_counter),
                               seq |-> <<>>, timeout |-> TimeoutDefault,
                               action |-> "none"])
  /\ chain_counter' = chain_counter + 1
  /\ Idle
  /\ UNCHANGED <<cam, queued, closed, now, cal_n, cal_s, bl, sm, hs, ta, lt,
                 hold_active, toggle_state, repeat_lt, enabled, triggerMode,
                 action, chain_state, chain_hs, chain_ta, chain_newly,
                 morse, obs, doc>>

\* the cards' enable boxes after _on_gesture_claimed for the gestures gs
Unticked(en, gs) == [g \in GIDS |-> IF g \in gs THEN FALSE ELSE en[g]]

\* a step row is added to chain card i and set to the gesture g:
\* gesture_claimed unticks the card of g
AddStep(i, g) ==
  /\ ~closed
  /\ chains' = [chains EXCEPT ![i].seq = Append(@, g)]
  /\ enabled' = Unticked(enabled, {g})
  /\ Idle
  /\ UNCHANGED <<cam, queued, closed, now, cal_n, cal_s, bl, sm, hs, ta, lt,
                 hold_active, toggle_state, repeat_lt, triggerMode, action,
                 chain_state, chain_hs, chain_ta, chain_newly, morse, obs,
                 chain_counter, doc>>

\* the chain entries of a document that _imp gets to: all of them, or
\* those up to the first whose timeout makes set_state raise
Applied(cs) ==
  LET bad == {i \in DOMAIN cs : ~cs[i].numeric}
  IN IF bad = {} THEN Len(cs) ELSE CHOOSE i \in bad : \A j \in bad : i <= j

\* the try block of _imp on the document d: set_state of the gesture
\* cards; every chain card and morse chain card removed (a removed chain
\* is still in self.chains when _on_gesture_released looks for users of
\* its gestures, so no card is ticked again); one new chain card per chain
\* entry, whose set_state adds the steps, which unticks their gestures'
\* cards, and then sets timeout and action; one new morse chain card per
\* morse entry.  An exception ends the block where it is raised.
imp(d) ==
  LET n == Applied(d.chains)
      failed == n # 0 /\ ~d.chains[n].numeric
      card(i) ==
        LET e == d.chains[i] IN
        [chain_id |-> ChainName(chain_counter + i - 1), seq |-> e.gestures,
         timeout |-> IF e.numeric THEN setValue(e.timeout, 300, 5000)
                     ELSE TimeoutDefault,
         action |-> IF e.numeric THEN e.action ELSE "none"]
      cs == [i \in 1..n |-> card(i)]
      ms == IF failed THEN <<>>
            ELSE [i \in DOMAIN d.morse_chains |->
                    LET e == d.morse_chains[i] IN
                    [chain_id |-> ChainName(chain_counter + n + i - 1),
                     gesture |-> e.gesture, short_ms |-> e.short_ms,
                     long_ms |-> e.long_ms, timeout |-> e.timeout,
                     patterns |-> e.patterns]]
      claimed == Claimed(cs) \cup {ms[i].gesture : i \in DOMAIN ms}
  IN [enabled |-> Unticked([g \in GIDS |-> d.gestures[g].enabled], claimed),
      action |-> [g \in GIDS |-> d.gestures[g].action],
      triggerMode |-> [g \in GIDS |-> d.gestures[g].triggerMode],
      chains |-> cs, morse_chains |-> ms,
      chain_counter |-> chain_counter + n + Len(ms),
      failed |-> failed]

\* the entries of the function f for the keys outside gone
Popped(f, gone) == [c \in DOMAIN f \ gone |-> f[c]]

\* _imp: the import button, the file chosen holding the document d
Import(d) ==
  /\ ~closed
  /\ chain_counter + Len(d.chains) + Len(d.morse_chains) <= MaxCards
  /\ LET r == imp(d)
         gone == {chains[i].chain_id : i \in DOMAIN chains}
         mgone == {morse_chains[i].chain_id : i \in DOMAIN morse_chains}
     IN /\ enabled' = r.enabled /\ action' = r.action
        /\ triggerMode' = r.triggerMode
        /\ chains' = r.chains /\ morse_chains' = r.morse_chains
        /\ chain_counter' = r.chain_counter
        /\ chain_state' = Popped(chain_state, gone)
        /\ mc_hs' = Popped(mc_hs, mgone) /\ mc_buf' = Popped(mc_buf, mgone)
        /\ mc_last' = Popped(mc_last, mgone)
        /\ mc_active' = Popped(mc_active, mgone)
        /\ op' = IF r.failed THEN "import_error" ELSE "import"
  /\ ev' = <<>>
  /\ doc' = <<d>>
  /\ UNCHANGED <<cam, queued, closed, now, cal_n, cal_s, bl, sm, hs, ta, lt,
                 hold_active, toggle_state, repeat_lt, chain_hs, chain_ta,
                 chain_newly, obs>>

\* a document written by hand: the cards as built, and one chain on blink
\* whose timeout is a number (numeric) or a text
Written(numeric) ==
  [gestures |-> [g \in GIDS |-> [enabled |-> TRUE, action |-> "none",
                                 triggerMode |-> "single"]],
   chains |-> <<[gestures |-> <<"blink">>, timeout |-> 300,
                 action |-> "key", numeric |-> numeric]>>,
   morse_chains |-> <<>>]

\* the files the import dialog can be pointed at
Files == {Written(TRUE), Written(FALSE)} \cup {doc[i] : i \in DOMAIN doc}

InitConfig == Session(AllSingle, Unbound, AllEnabled, <<>>, "none", 0)

NextConfig ==
  \/ \E g \in {"blink", "smile"} : \E b \in BOOLEAN :
       SetEnabled(g, b) /\ UNCHANGED io
  \/ AddChain
       /\ UNCHANGED <<workers, down, drag_active, sms, thresholdMax, brow,
                      key_bind, macro, trace>>
  \/ \E i \in DOMAIN chains : \E g \in {"blink", "smile"} :
       chains[i].seq = <<>> /\ AddStep(i, g) /\ UNCHANGED io
  \/ \E i \in DOMAIN chains : \E k \in DOMAIN chains[i].seq :
       RemoveStep(i, k) /\ UNCHANGED io
  \/ Export
       /\ UNCHANGED <<workers, down, drag_active, sms, thresholdMax, brow,
                      key_bind, macro, trace>>
  \/ \E d \in Files :
       Import(d)
         /\ UNCHANGED <<workers, down, drag_active, sms, thresholdMax, brow,
                      key_bind, macro, trace>>

SpecConfig == InitConfig /\ [][NextConfig]_vars

\* C24: importing the document that is the export of the current
\* configuration gives a configuration whose export is that document.
ConfigRoundTrip ==
  [][(op' = "import" /\ doc = <<Exported>> /\ doc' = doc)
       => Exported' = Exported]_vars

\* C25: an import that fails partway leaves the configuration as it was
\* before the load.
FailedImportKeepsConfig ==
  [][op' = "import_error" => Exported' = Exported]_vars

(* ------------------- reset of the runtime state (C26) ------------------ *)
\* C26: a camera start and a recalibration each leave every gesture with
\* smoothed score 0, armed flag false, last fire 0, dwell timestamp 0,
\* hold_active false, toggle_state false and last repeat 0.
SessionResetsRuntime ==
  [][op' \in {"start", "recal"} =>
       \A g \in GIDS :
         /\ sm'[g] = 0 /\ ~ta'[g] /\ lt'[g] = 0 /\ hs'[g] = 0
         /\ ~hold_active'[g] /\ ~toggle_state'[g] /\ repeat_lt'[g] = 0]_vars

(* ------------------------- the smoother (C27) -------------------------- *)
\* the constant raw scores and the starting values of the smoothed score
RawScores == {0, 17, 50, 100}
StartScores == {10 * i : i \in 0..10} \cup {16, 18}

\* a frame of a tracking session whose raw scores are those of the frame
\* before: the smoothing loop of _of
Smooth ==
  /\ sm' = [g \in GIDS |-> Ema(sm[g], raw[g])]
  /\ op' = "smooth" /\ ev' = <<>>
  /\ UNCHANGED <<cam, queued, closed, now, cal_n, cal_s, bl, hs, ta, lt,
                 hold_active, toggle_state, repeat_lt, enabled, triggerMode,
                 action, chains, chain_state, chain_hs, chain_ta,
                 chain_newly, morse, obs, io>>

\* a tracking session with no action bound, the smoothing slider anywhere
\* in its range, blink's raw score at a constant and its smoothed score
\* anywhere in 0..100
InitEma ==
  /\ cam = "running" /\ queued = 0 /\ closed = FALSE
  /\ now = StartTime
  /\ cal_n = CAL_N /\ fed = CAL_N
  /\ cal_s = [k \in KEYS |-> 0] /\ bl = [k \in KEYS |-> 0]
  /\ \E s \in RawScores : raw = [Zero EXCEPT !["blink"] = s]
  /\ \E x \in StartScores : sm = [Zero EXCEPT !["blink"] = x]
  /\ sms \in 1..15 /\ thresholdMax = dtmax /\ brow = NoBrows
  /\ morse_chains = <<>>
  /\ mc_hs = <<>> /\ mc_buf = <<>> /\ mc_last = <<>> /\ mc_active = <<>>
  /\ mc_sym = <<>> /\ mc_edited = {}
  /\ hs = Zero /\ ta = AllFalse /\ lt = Zero
  /\ hold_active = AllFalse /\ toggle_state = AllFalse /\ repeat_lt = Zero
  /\ enabled = AllEnabled /\ triggerMode = AllSingle /\ action = Unbound
  /\ chains = <<>> /\ chain_state = <<>>
  /\ chain_hs = Zero /\ chain_ta = AllFalse /\ chain_newly = {}
  /\ workers = <<>> /\ down = {} /\ drag_active = FALSE
  /\ chain_counter = 0 /\ doc = <<>>
  /\ key_bind = <<>> /\ macro = <<>> /\ trace = <<>>
  /\ op = "idle" /\ ev = <<>>
  /\ since = Zero /\ unmatched = Zero /\ epfires = Zero /\ lastfire = Zero
  /\ tog_done = AllFalse /\ tog_last = Zero /\ tog_par = Zero
  /\ other_edge = {} /\ late_edge = {}

NextEma == Smooth

SpecEma == InitEma /\ [][NextEma]_vars

\* the distance of x from s
Dist(x, s) == IF x < s THEN s - x ELSE x - s

BrowScores == {0, 50, 84, 85, 86, 100}

\* compute on a frame of a calibrated detector, as far as the eyebrows go
ComputeBrows(l, r, c) ==
  /\ brow' = Brows(l, r, c, Eyebrows(l, r, c))
  /\ op' = "compute" /\ ev' = <<>>
  /\ UNCHANGED <<cam, queued, closed, now, cal_n, cal_s, bl, sm, hs, ta, lt,
                 hold_active, toggle_state, repeat_lt, enabled, triggerMode,
                 action, chains, chain_state, chain_hs, chain_ta,
                 chain_newly, morse, obs, workers, down, drag_active,
                 chain_counter, doc, sms, thresholdMax, key_bind, macro, trace>>

InitBrows == Session(AllSingle, Unbound, AllEnabled, <<>>, "running", CAL_N)

NextBrows == \E l, r, c \in BrowScores : ComputeBrows(l, r, c)

SpecBrows == InitBrows /\ [][NextBrows]_vars

\* C28, as stated: if the per-side scores both exceed 85 the combined
\* score is returned and the per-side scores are 0, otherwise the per-side
\* scores are returned and eyebrow_raise is 0.
EyebrowsAbove85 ==
  op = "compute" =>
    IF brow.raw_left > 85 /\ brow.raw_right > 85
    THEN /\ brow.out.eyebrow_raise = brow.combined
         /\ brow.out.eyebrow_raise_left = 0
         /\ brow.out.eyebrow_raise_right = 0
    ELSE /\ brow.out.eyebrow_raise = 0
         /\ brow.out.eyebrow_raise_left = brow.raw_left
         /\ brow.out.eyebrow_raise_right = brow.raw_right

\* C28, amended: if the per-side scores are both at least 85 the combined
\* score is returned and the per-side scores are 0, otherwise the per-side
\* scores are returned and eyebrow_raise is 0; eyebrow_raise and a
\* per-side score are never both non-zero.
EyebrowsFrom85 ==
  op = "compute" =>
    /\ IF brow.raw_left >= 85 /\ brow.raw_right >= 85
       THEN /\ brow.out.eyebrow_raise = brow.combined
            /\ brow.out.eyebrow_raise_left = 0
            /\ brow.out.eyebrow_raise_right = 0
       ELSE /\ brow.out.eyebrow_raise = 0
            /\ brow.out.eyebrow_raise_left = brow.raw_left
            /\ brow.out.eyebrow_raise_right = brow.raw_right
    /\ ~(/\ brow.out.eyebrow_raise # 0
         /\ (brow.out.eyebrow_raise_left # 0
             \/ brow.out.eyebrow_raise_right # 0))

\* both per-side scores are exactly 85: the combined score is returned
EyebrowsFrom85Case ==
  /\ op = "compute"
  /\ brow.raw_left = 85 /\ brow.raw_right = 85 /\ brow.combined = 50
  /\ brow.out.eyebrow_raise = 50 /\ brow.out.eyebrow_raise_left = 0

(* ------------------- hold mode by action kind (C29) -------------------- *)
HoldHorizon == 300

\* A started, calibrated session with blink in hold mode on a key (an
\* action that can be sustained), on scroll up (repeatable) or on a
\* command (neither).
InitHold ==
  \/ OneCard("hold", "key")
  \/ OneCard("hold", "scroll_up")
  \/ OneCard("hold", "command")

NextHold ==
  \/ Advance(TimeStep, HoldHorizon) /\ UNCHANGED io
  \/ \E b \in BOOLEAN : SetEnabled("blink", b) /\ UNCHANGED io
  \/ FrameNoFace /\ UNCHANGED io
  \/ FrameTracking(Bound, MaxMoving) /\ UNCHANGED io

SpecHold == InitHold /\ [][NextHold]_vars

\* C29: in the frame in which a hold-mode gesture activates (hold_active
\* becomes set) an action that can be sustained gets one hold start and no
\* fire, and any other action one fire and no hold start; in a frame in
\* which hold_active stays set nothing is started, at most one fire is
\* issued, only for a repeatable action and at least 150 ms after the fire
\* before it; a frame that leaves hold_active unset starts and fires
\* nothing.
HoldDispatch ==
  [][op' = "track" =>
       \A g \in GIDS : triggerMode[g] = "hold" =>
         LET starts == Cardinality({i \in DOMAIN ev' : Starts(ev'[i], g)})
             fires == Cardinality({i \in DOMAIN ev' :
                                     /\ ev'[i].src = g
                                     /\ ev'[i].req = "action"})
         IN /\ (~hold_active[g] /\ hold_active'[g]) =>
                 IF action[g] \in {"key", "left_click", "right_click",
                                   "middle_click"}
                 THEN starts = 1 /\ fires = 0
                 ELSE starts = 0 /\ fires = 1
            /\ (hold_active[g] /\ hold_active'[g]) =>
                 /\ starts = 0 /\ fires <= 1
                 /\ fires = 1 =>
                      /\ action[g] \in {"scroll_up", "scroll_down",
                                        "double_click", "macro"}
                      /\ now - lastfire[g] >= 150
            /\ ~hold_active'[g] => (starts = 0 /\ fires = 0)]_vars

\* a repeat fire of scroll up, 150 ms or more after the fire before it
HoldDispatchCase ==
  /\ op = "track"
  /\ triggerMode["blink"] = "hold" /\ action["blink"] = "scroll_up"
  /\ hold_active["blink"]
  /\ \E i \in DOMAIN ev : ev[i].src = "blink" /\ ev[i].why = "repeat"
  /\ lastfire["blink"] = now /\ now >= StartTime + HoldTime + 150

(* ---------------- toggle mode across sessions (C30) -------------------- *)
ToggleHorizon == 200

\* the face is neutral and the eyes are open while the detector calibrates:
\* every feature is at 0 in the frames that are summed
NeutralFace ==
  /\ \A k \in DOMAIN cal_s : cal_s[k] = 0
  /\ \A k \in DOMAIN bl : bl[k] = 0
  /\ cal_n < CAL_N => raw = Zero

InitToggle == OneCard("toggle", "key")

NextToggle ==
  \/ Advance(TimeStep, ToggleHorizon) /\ UNCHANGED io
  \/ Stop /\ UNCHANGED io
  \/ Start /\ UNCHANGED io
  \/ Recal /\ UNCHANGED io
  \/ FrameCalibrating /\ NeutralFace' /\ UNCHANGED io
  \/ FrameTracking(Bound, MaxMoving) /\ NeutralFace' /\ UNCHANGED io

SpecToggle == InitToggle /\ [][NextToggle]_vars

\* C30: the hold starts and hold stops issued for a toggle-mode gesture on
\* an action that can be sustained alternate, beginning with a hold start:
\* a handler issues at most one of them, a hold start only when every
\* earlier hold start has been stopped, and a hold stop only when a hold
\* start is waiting for it.
ToggleAlternates ==
  [][\A g \in GIDS :
       (/\ triggerMode[g] = "toggle"
        /\ action[g] \in {"key", "left_click", "right_click",
                          "middle_click"}) =>
         LET starts == {i \in DOMAIN ev' : Starts(ev'[i], g)}
             stops == {i \in DOMAIN ev' : Stops(ev'[i], g)}
         IN /\ Cardinality(starts \cup stops) <= 1
            /\ starts # {} => unmatched[g] = 0
            /\ stops # {} => unmatched[g] = 1]_vars

(* ------------------ the high threshold (C31) --------------------------- *)
TmaxHorizon == 150

\* positions of a tmax slider (0..100): its two ends
TmaxValues == {0, 100}

\* a chain card on smile then mouth_open and a morse chain card on pucker
SM ==
  [chain_id |-> "chain0", seq |-> <<"smile", "mouth_open">>,
   timeout |-> ChainTimeout, action |-> "key"]

PK ==
  [chain_id |-> "morse1", gesture |-> "pucker", short_ms |-> ShortMs,
   long_ms |-> LongMs, timeout |-> MorseTimeout,
   patterns |-> <<[pattern |-> <<"S">>, action |-> "left_click"]>>]

\* the settings of the cards' tmax sliders the runs are compared over: the
\* catalog's, and every slider at one end
TmaxSettings == {dtmax} \cup {[g \in GIDS |-> v] : v \in TmaxValues}

\* A started, calibrated session: blink on a key in one of the trigger
\* modes, the chain and the morse chain above (their gestures' cards
\* unticked by _on_gesture_claimed), and the tmax sliders at one of the
\* settings.
InitTmax ==
  \E m \in TRIGGER_MODES :
    /\ Window([AllSingle EXCEPT !["blink"] = m],
              [Unbound EXCEPT !["blink"] = "key"],
              [g \in GIDS |-> g = "blink"], <<SM>>, <<PK>>, "running", CAL_N)
    /\ thresholdMax \in TmaxSettings
    /\ sms = Smoothing /\ brow = NoBrows /\ key_bind = <<>>
    /\ macro = <<>> /\ trace = <<>>

NextTmax ==
  \/ Advance(TimeStep, TmaxHorizon) /\ UNCHANGED io
  \/ FrameTracking(GIDS, MaxMoving) /\ UNCHANGED io

SpecTmax == InitTmax /\ [][NextTmax]_vars

\* C31: what a processed frame does is the same for every setting of the
\* cards' high thresholds: from the same runtime state, the same scores and
\* the same clock, the requests it issues (trigger, chain and morse, in
\* order) and the runtime state it leaves are those every other choice of
\* thresholdMax values gives.  Runs that differ only in thresholdMax
\* therefore stay equal step by step.
TmaxNonInterference ==
  [][op' = "track" =>
          \A v \in TmaxValues :
            LET tm == [g \in GIDS |-> v]
                r == [g \in GIDS |-> TriggerAt(g, sm'[g], now, tm[g])]
                e == [g \in GIDS |-> ChainEdgeAt(g, sm'[g], now, tm[g])]
                newly == {g \in GIDS : e[g].newly}
                c == [i \in LiveChains |-> ChainStep(chains[i], newly, now)]
                mo == [i \in LiveMorse |->
                         MorseStepAt(morse_chains[i],
                                     sm'[morse_chains[i].gesture], now,
                                     tm[morse_chains[i].gesture])]
            IN /\ sm' = [g \in GIDS |-> Ema(sm[g], raw'[g])]
               /\ hs' = [g \in GIDS |-> r[g].hs]
               /\ ta' = [g \in GIDS |-> r[g].ta]
               /\ lt' = [g \in GIDS |-> r[g].lt]
               /\ hold_active' = [g \in GIDS |-> r[g].hold_active]
               /\ toggle_state' = [g \in GIDS |-> r[g].toggle_state]
               /\ repeat_lt' = [g \in GIDS |-> r[g].repeat_lt]
               /\ chain_hs' = [g \in GIDS |-> e[g].hs]
               /\ chain_ta' = [g \in GIDS |-> e[g].ta]
               /\ chain_newly' = newly
               /\ \A i \in LiveChains :
                    chain_state'[chains[i].chain_id] = c[i].cs
               /\ \A i \in LiveMorse :
                    LET cid == morse_chains[i].chain_id IN
                    /\ mc_hs'[cid] = mo[i].hs /\ mc_buf'[cid] = mo[i].buf
                    /\ mc_last'[cid] = mo[i].last
                    /\ mc_active'[cid] = mo[i].active
               /\ ev' = Flat([i \in DOMAIN GESTURES |-> r[GESTURES[i]].out])
                        \o Flat([i \in DOMAIN chains |->
                                   IF i \in LiveChains THEN c[i].out
                                   ELSE <<>>])
                        \o Flat([i \in DOMAIN morse_chains |->
                                   IF i \in LiveMorse THEN mo[i].out
                                   ELSE <<>>])
    ]_vars

\* a frame has fired for blink, advanced the chain or appended a morse
\* symbol while that gesture's score was above its card's high threshold
TmaxNonInterferenceCase ==
  /\ op = "track"
  /\ \/ /\ \E i \in DOMAIN ev : ev[i].src = "blink"
        /\ sm["blink"] > thresholdMax["blink"]
     \/ /\ "chain0" \in DOMAIN chain_state /\ chain_state["chain0"].step = 1
        /\ sm["smile"] > thresholdMax["smile"]
        /\ chain_newly = {"smile"}
     \/ /\ \E i \in DOMAIN ev : ev[i].src = "morse1"
        /\ thresholdMax["pucker"] = 0

(* ------------------- gesture claim and release (C32) ------------------- *)
\* _on_gesture_released for each of the gestures gs in turn, with the
\* chain cards cs and morse chain cards ms in the lists meanwhile
ReleasedGestures(en, gs, cs, ms) ==
  [g \in GIDS |->
     IF g \in gs THEN on_gesture_released(en, g, cs, ms)[g] ELSE en[g]]

\* _remove_chain: the delete button of chain card i.  The gestures are
\* released while the card is still in self.chains; then its chain_state
\* entry and the card go.
RemoveChain(i) ==
  /\ ~closed
  /\ enabled' = ReleasedGestures(enabled, Claimed(<<chains[i]>>), chains,
                                 morse_chains)
  /\ chain_state' = Popped(chain_state, {chains[i].chain_id})
  /\ chains' = Removed(chains, i)
  /\ op' = "remove_chain" /\ ev' = <<>>
  /\ UNCHANGED <<cam, queued, closed, now, cal_n, cal_s, bl, sm, hs, ta, lt,
                 hold_active, toggle_state, repeat_lt, triggerMode, action,
                 chain_hs, chain_ta, chain_newly, morse, obs>>

\* ChainStepRow._on_changed, then GestureChainCard._on_gesture_changed:
\* the k-th step row of chain card i is set to the gesture g; the row
\* holds g when the old gesture is released and g is claimed
ChangeStep(i, k, g) ==
  /\ ~closed
  /\ chains[i].seq[k] # g
  /\ LET after == [chains EXCEPT ![i].seq[k] = g]
     IN /\ chains' = after
        /\ enabled' =
             Unticked(on_gesture_released(enabled, chains[i].seq[k], after,
                                          morse_chains), {g})
  /\ op' = "change_step" /\ ev' = <<>>
  /\ UNCHANGED <<cam, queued, closed, now, cal_n, cal_s, bl, sm, hs, ta, lt,
                 hold_active, toggle_state, repeat_lt, triggerMode, action,
                 chain_state, chain_hs, chain_ta, chain_newly, morse, obs>>

\* _add_morse_chain: the button that adds a morse chain card (no gesture
\* chosen, one empty pattern row, the sliders as built)
AddMorseChain ==
  /\ ~closed
  /\ chain_counter < MaxCards
  /\ morse_chains' =
       Append(morse_chains,
              [chain_id |-> ChainName(chain_counter), gesture |-> "",
               short_ms |-> 200, long_ms |-> 600, timeout |-> TimeoutDefault,
               patterns |-> <<[pattern |-> <<>>, action |-> "none"]>>])
  /\ chain_counter' = chain_counter + 1
  /\ Idle
  /\ UNCHANGED <<cam, queued, closed, now, cal_n, cal_s, bl, sm, hs, ta, lt,
                 hold_active, toggle_state, repeat_lt, enabled, triggerMode,
                 action, chains, chain_state, chain_hs, chain_ta,
                 chain_newly, mc_hs, mc_buf, mc_last, mc_active, obs>>

\* MorseChainCard._on_gesture_changed: the gesture box of morse chain card
\* i is set to g ("": no gesture); the box holds g when the old gesture is
\* released and g is claimed
SetMorseGesture(i, g) ==
  /\ ~closed
  /\ morse_chains[i].gesture # g
  /\ LET after == [morse_chains EXCEPT ![i].gesture = g]
         freed == on_gesture_released(enabled, morse_chains[i].gesture,
                                      chains, after)
     IN /\ morse_chains' = after
        /\ enabled' = IF g = "" THEN freed ELSE Unticked(freed, {g})
  /\ op' = "morse_gesture" /\ ev' = <<>>
  /\ UNCHANGED <<cam, queued, closed, now, cal_n, cal_s, bl, sm, hs, ta, lt,
                 hold_active, toggle_state, repeat_lt, triggerMode, action,
                 chains, chain_state, chain_hs, chain_ta, chain_newly,
                 mc_hs, mc_buf, mc_last, mc_active, obs>>

\* _remove_morse_chain: the delete button of morse chain card i.  The
\* gesture is released while the card is still in self.morse_chains; then
\* its runtime entries and the card go.
RemoveMorseChain(i) ==
  /\ ~closed
  /\ LET cid == morse_chains[i].chain_id IN
     /\ enabled' = ReleasedGestures(enabled, MorseClaimed(<<morse_chains[i]>>),
                                    chains, morse_chains)
     /\ mc_hs' = Popped(mc_hs, {cid}) /\ mc_buf' = Popped(mc_buf, {cid})
     /\ mc_last' = Popped(mc_last, {cid})
     /\ mc_active' = Popped(mc_active, {cid})
  /\ morse_chains' = Removed(morse_chains, i)
  /\ op' = "remove_morse" /\ ev' = <<>>
  /\ UNCHANGED <<cam, queued, closed, now, cal_n, cal_s, bl, sm, hs, ta, lt,
                 hold_active, toggle_state, repeat_lt, triggerMode, action,
                 chains, chain_state, chain_hs, chain_ta, chain_newly, obs>>

\* the gestures the user picks in the step rows and gesture boxes
Picked == {"blink", "smile"}

\* The window as built, the camera not started: chain cards and morse chain
\* cards are added, edited and deleted.
NextClaim ==
  \/ AddChain
       /\ UNCHANGED <<workers, down, drag_active, sms, thresholdMax, brow,
                      key_bind, macro, trace, doc>>
  \/ AddMorseChain
       /\ UNCHANGED <<workers, down, drag_active, sms, thresholdMax, brow,
                      key_bind, macro, trace, doc>>
  \/ \E i \in DOMAIN chains : \E g \in Picked :
       Len(chains[i].seq) < MaxSteps /\ AddStep(i, g) /\ UNCHANGED io
  \/ \E i \in DOMAIN chains : \E k \in DOMAIN chains[i].seq :
       RemoveStep(i, k) /\ UNCHANGED io
  \/ \E i \in DOMAIN chains : \E k \in DOMAIN chains[i].seq :
       \E g \in Picked : ChangeStep(i, k, g) /\ UNCHANGED io
  \/ \E i \in DOMAIN chains : RemoveChain(i) /\ UNCHANGED io
  \/ \E i \in DOMAIN morse_chains : \E g \in Picked \cup {""} :
       SetMorseGesture(i, g) /\ UNCHANGED io
  \/ \E i \in DOMAIN morse_chains : RemoveMorseChain(i) /\ UNCHANGED io

SpecClaim == InitConfig /\ [][NextClaim]_vars

\* the step rows and gesture boxes of the cards cs and ms that hold g
Uses(cs, ms, g) ==
  Cardinality({<<i, k>> \in (DOMAIN cs) \X (1..MaxSteps) :
                 k \in DOMAIN cs[i].seq /\ cs[i].seq[k] = g})
  + Cardinality({i \in DOMAIN ms : ms[i].gesture = g})

\* C32: a step that gives a gesture one more use among the chain and morse
\* chain cards leaves its card unticked; a step that takes a use of a
\* gesture away (step removed, step gesture changed, gesture box changed,
\* chain or morse chain deleted) leaves its card ticked if no remaining
\* card uses the gesture and as it was otherwise.
GestureClaimRelease ==
  [][\A g \in GIDS :
       LET before == Uses(chains, morse_chains, g)
           after == Uses(chains', morse_chains', g)
       IN /\ after > before => ~enabled'[g]
          /\ after < before =>
               enabled'[g] = (IF after = 0 THEN TRUE ELSE enabled[g])
    ]_vars

(* ------------------- the hold step of a macro (C33) -------------------- *)
\* C33: every key-down entry that a hold step of an executed macro put in
\* the trace is followed by a key-up entry of the same step for the same
\* key code (so before the entries of the next step and before the end of
\* the macro).
HoldStepReleases ==
  op = "macro" =>
    \A k \in DOMAIN trace :
      (trace[k].e = "down" /\ parse_macro(macro)[trace[k].step].type = "hold")
        => \E j \in DOMAIN trace :
             /\ j > k /\ trace[j].e = "up"
             /\ trace[j].vk = trace[k].vk /\ trace[j].step = trace[k].step

(* ------------------- frames before calibration (C34) ------------------- *)
UncalHorizon == 100

\* a chain card on blink then smile, and a morse chain card on blink
BS ==
  [chain_id |-> "chain0", seq |-> <<"blink", "smile">>,
   timeout |-> ChainTimeout, action |-> "key"]

BK ==
  [chain_id |-> "morse0", gesture |-> "blink", short_ms |-> ShortMs,
   long_ms |-> LongMs, timeout |-> MorseTimeout,
   patterns |-> <<[pattern |-> <<"S">>, action |-> "left_click"]>>]

\* the features that are summed are at 0 while the detector calibrates;
\* the eyes are open or closed
StillFace ==
  /\ \A k \in DOMAIN cal_s : cal_s[k] = 0
  /\ \A k \in DOMAIN bl : bl[k] = 0

\* A started, calibrated session: blink on a key in one of the trigger
\* modes, or blink at the head of a chain, or blink in a morse chain (its
\* card unticked by _on_gesture_claimed).
InitUncal ==
  \/ \E m \in TRIGGER_MODES : OneCard(m, "key")
  \/ SessionWith(AllSingle, Unbound, [g \in GIDS |-> g \notin {"blink", "smile"}],
                 <<BS>>, <<>>, "running", CAL_N)
  \/ SessionWith(AllSingle, Unbound, [g \in GIDS |-> g # "blink"], <<>>,
                 <<BK>>, "running", CAL_N)

NextUncal ==
  \/ Advance(TimeStep, UncalHorizon) /\ UNCHANGED io
  \/ Stop /\ UNCHANGED io
  \/ Start /\ UNCHANGED io
  \/ Recal /\ UNCHANGED io
  \/ FrameNoFace /\ UNCHANGED io
  \/ FrameCalibrating /\ StillFace' /\ UNCHANGED io
  \/ FrameTracking({"blink"}, MaxMoving) /\ StillFace' /\ UNCHANGED io

SpecUncal == InitUncal /\ [][NextUncal]_vars

\* the runtime state of the smoother, the triggers, the chains and the
\* morse chains
Runtime ==
  <<sm, hs, ta, lt, hold_active, toggle_state, repeat_lt, chain_state,
    chain_hs, chain_ta, chain_newly, mc_hs, mc_buf, mc_last, mc_active>>

\* C34: a step other than _start and _recal themselves that leaves the
\* detector not calibrated (fewer than 45 face frames since the last start
\* or recalibration) issues no request and changes no runtime state of the
\* smoother, the triggers, the chains and the morse chains.
UncalibratedIsInert ==
  [][(cal_n' < CAL_N /\ op' \notin {"start", "recal"})
       => (ev' = <<>> /\ Runtime' = Runtime)]_vars

\* a calibration frame in which the eyes are closed (blink scores RawHigh)
\* has been processed, long enough after the eyes closed for the hold
\* time to have passed
UncalibratedIsInertCase ==
  /\ op = "calib" /\ cal_n < CAL_N /\ cal_n >= 2
  /\ raw["blink"] = RawHigh
  /\ now >= StartTime + HoldTime
  /\ sm = Zero /\ hs = Zero /\ chain_hs = Zero

(* ----------------- one chain step per frame (C35) ---------------------- *)
StepHorizon == 200

\* a chain card whose sequence repeats a gesture: blink, blink, smile
AAB ==
  [chain_id |-> "chain0", seq |-> <<"blink", "blink", "smile">>,
   timeout |-> ChainTimeout, action |-> "key"]

\* A started, calibrated session with the chain above, the cards of its
\* gestures unticked by _on_gesture_claimed.
InitStep ==
  Session(AllSingle, Unbound, [g \in GIDS |-> g \notin {"blink", "smile"}],
          <<AAB>>, "running", CAL_N)

\* the face makes blink, smile or both in a frame
NextStep ==
  \/ Advance(TimeStep, StepHorizon) /\ UNCHANGED io
  \/ FrameTracking({"blink", "smile"}, 2) /\ UNCHANGED io

SpecStep == InitStep /\ [][NextStep]_vars

\* C35: in a processed frame a chain's step index goes up by at most one.
\* A frame that accepts a step (the index goes up, or the chain fires and
\* the index returns to 0) accepts exactly the one step the chain was at,
\* or step 0 after a timeout, and the gesture of that step has its rising
\* edge in this very frame (its tracker flag was clear before the frame);
\* a frame without that edge leaves the index where it was or resets it.
ChainOneStepPerFrame ==
  [][op' = "track" =>
       \A i \in LiveChains :
         LET ch == chains[i]
             before == ChainEntry(ch.chain_id).step
             after == chain_state'[ch.chain_id].step
             fired == Fired(ev', ch.chain_id) # {}
             accepted == \/ fired
                         \/ /\ after # 0
                            /\ chain_state'[ch.chain_id]
                                 # ChainEntry(ch.chain_id)
             k == IF fired THEN Len(ch.seq) - 1 ELSE after - 1
         IN /\ after <= before + 1
            /\ Cardinality(Fired(ev', ch.chain_id)) <= 1
            /\ accepted =>
                 /\ k \in {before, 0}
                 /\ ~chain_ta[ch.seq[k + 1]] /\ chain_ta'[ch.seq[k + 1]]
                 /\ ch.seq[k + 1] \in chain_newly'
            /\ ~accepted => after \in {before, 0}
    ]_vars

\* the chain was at its second step and blink and smile, the gestures of
\* the second and third step, had their rising edge in one frame: the
\* chain is at the third step, and a later frame in which both are still
\* held has left it there
ChainOneStepPerFrameCase ==
  /\ op = "track"
  /\ chain_state["chain0"].step = 2
  /\ chain_state["chain0"].last_time < now
  /\ chain_ta["blink"] /\ chain_ta["smile"]
  /\ chain_hs["smile"] = chain_hs["blink"]
  /\ chain_hs["smile"] + HoldTime = chain_state["chain0"].last_time
  /\ chain_newly = {}

(* ------------------- patterns with a prefix (C36) ---------------------- *)
PrefixHorizon == 300
MaxSymbols == 2

\* a morse chain card on blink with the row short-long and a second row
\* that is empty or holds short
Rows(second) ==
  [chain_id |-> "morse0", gesture |-> "blink", short_ms |-> ShortMs,
   long_ms |-> LongMs, timeout |-> MorseTimeout,
   patterns |-> <<[pattern |-> <<"S", "L">>, action |-> "key"],
                  [pattern |-> second, action |-> "left_click"]>>]

\* MorsePatternRow._add_symbol: the S or L button of pattern row r of morse
\* chain card i
AddSymbol(i, r, sym) ==
  /\ ~closed
  /\ morse_chains' =
       [morse_chains EXCEPT ![i].patterns[r].pattern = Append(@, sym)]
  /\ mc_edited' =
       (IF MorseEntry(morse_chains[i].chain_id).buf # <<>>
        THEN mc_edited \cup {morse_chains[i].chain_id} ELSE mc_edited)
  /\ op' = "add_symbol" /\ ev' = <<>>
  /\ UNCHANGED <<cam, queued, closed, now, cal_n, cal_s, bl, sm, hs, ta, lt,
                 hold_active, toggle_state, repeat_lt, enabled, triggerMode,
                 action, chains, chain_state, chain_hs, chain_ta,
                 chain_newly, mc_hs, mc_buf, mc_last, mc_active>>
  /\ UNCHANGED <<since, unmatched, epfires, lastfire, tog_done, tog_last,
                 tog_par, other_edge, late_edge, mc_sym, raw, fed>>

\* A started, calibrated session with the morse chain above, the card of
\* blink unticked by _on_gesture_claimed.
InitPrefix ==
  \E second \in {<<>>, <<"S">>} :
    SessionWith(AllSingle, Unbound, [g \in GIDS |-> g # "blink"], <<>>,
                <<Rows(second)>>, "running", CAL_N)

NextPrefix ==
  \/ Advance(TimeStep, PrefixHorizon) /\ UNCHANGED io
  \/ FrameTracking({"blink"}, MaxMoving) /\ UNCHANGED io
  \/ \E i \in DOMAIN morse_chains :
       \E r \in DOMAIN morse_chains[i].patterns : \E sym \in {"S", "L"} :
         /\ Len(morse_chains[i].patterns[r].pattern) < MaxSymbols
         /\ AddSymbol(i, r, sym) /\ UNCHANGED io

SpecPrefix == InitPrefix /\ [][NextPrefix]_vars

\* the rows of pats whose pattern is a strict prefix of p
Shorter(pats, p) ==
  {k \in DOMAIN pats :
     Len(pats[k].pattern) < Len(p) /\ IsPrefix(pats[k].pattern, p)}

\* C36 as stated: a frame never fires a pattern of which another configured
\* pattern is a strict prefix.
PrefixedNeverFires ==
  [][op' = "track" =>
       \A i \in LiveMorse :
         LET chain == morse_chains[i]
             cid == chain.chain_id
             p == MorseEntry(cid).buf \o mc_sym'[cid]
         IN From(ev', cid) # {} => Shorter(get_patterns(chain), p) = {}
    ]_vars

\* C36, for a chain whose pattern rows were not edited since its buffer
\* was last empty: a frame never fires a pattern of which another
\* configured pattern is a strict prefix, and a frame whose symbol makes
\* the buffer equal to a configured pattern fires and leaves the buffer
\* empty.
PrefixedNeverFiresUnedited ==
  [][op' = "track" =>
       \A i \in LiveMorse :
         LET chain == morse_chains[i]
             cid == chain.chain_id
             pats == get_patterns(chain)
             p == MorseEntry(cid).buf \o mc_sym'[cid]
         IN /\ (From(ev', cid) # {} /\ cid \notin mc_edited)
                 => Shorter(pats, p) = {}
            /\ (mc_sym'[cid] # <<>> /\ \E k \in DOMAIN pats :
                                         pats[k].pattern = p)
                 => (From(ev', cid) # {} /\ mc_buf'[cid] = <<>>)
    ]_vars

\* short-long and short are both configured, no row was edited while
\* symbols were in the buffer, and a Short has just fired the row short
PrefixedNeverFiresUneditedCase ==
  /\ op = "track"
  /\ morse_chains[1].patterns[2].pattern = <<"S">>
  /\ "morse0" \in DOMAIN mc_sym /\ mc_sym["morse0"] = <<"S">>
  /\ mc_edited = {}
  /\ \E k \in From(ev, "morse0") : ev[k].act = "left_click"
  /\ mc_buf["morse0"] = <<>>

(* ------------- edits of a card while its hold is active (C37) ---------- *)
HoldEditHorizon == 150

\* the actions the card's combo is switched between
EditActions == {"key", "left_click"}

\* the trigger mode combo of a card: _otm only sets the hint label, and
\* get_state returns the new mode from the next frame on
SetMode(g, m) ==
  /\ ~closed
  /\ triggerMode[g] # m
  /\ triggerMode' = [triggerMode EXCEPT ![g] = m]
  /\ Idle
  /\ UNCHANGED <<cam, queued, closed, now, cal_n, sm, hs, ta, lt,
                 hold_active, toggle_state, repeat_lt, enabled, action,
                 chains, chain_state, chain_hs, chain_ta, chain_newly, obs,
                 cal_s, bl, morse>>

\* the action combo of a card: _oa only shows and hides the editors, and
\* get_state returns the new action from the next frame on
SetAction(g, a) ==
  /\ ~closed
  /\ action[g] # a
  /\ action' = [action EXCEPT ![g] = a]
  /\ Idle
  /\ UNCHANGED <<cam, queued, closed, now, cal_n, sm, hs, ta, lt,
                 hold_active, toggle_state, repeat_lt, enabled, triggerMode,
                 chains, chain_state, chain_hs, chain_ta, chain_newly, obs,
                 cal_s, bl, morse>>

\* A started, calibrated session with blink in hold mode on a key.
InitHoldEdit == OneCard("hold", "key")

\* Every started thread finishes before the next handler of the main
\* thread runs.
NextHoldEdit ==
  \/ workers = <<>> /\ Advance(TimeStep, HoldEditHorizon) /\ Dispatch
  \/ workers = <<>> /\ (\E m \in TRIGGER_MODES : SetMode("blink", m))
       /\ Dispatch
  \/ workers = <<>> /\ (\E a \in EditActions : SetAction("blink", a))
       /\ Dispatch
  \/ workers = <<>> /\ Stop /\ Dispatch
  \/ workers = <<>> /\ FrameTracking(Bound, MaxMoving) /\ Dispatch
  \/ \E i \in DOMAIN workers : RunWorker(i)

SpecHoldEdit == InitHoldEdit /\ [][NextHoldEdit]_vars

\* C37: whatever edits of the card's trigger mode and action were made
\* while a hold was active, once the last handler was a frame that found
\* the score below threshold, or the session stop, and the started threads
\* have finished, no key or button is pressed for a gesture that is not
\* toggled on, and hold_active is not set for a gesture whose mode is not
\* hold.
HoldStopReleasesStart ==
  \A g \in {"blink"} :
    (/\ workers = <<>>
     /\ ~toggle_state[g]
     /\ \/ op = "stop"
        \/ op = "track" /\ sm[g] < thresholdMin(g))
    => /\ down = {}
       /\ hold_active[g] => triggerMode[g] = "hold"

(* ------------------- no frame after session stop (C38) ----------------- *)
\* C38: while the camera is stopped (after _stop, before the next _start)
\* a frame the detection loop handles issues no hold start and no fire,
\* flips no toggle, advances no chain and appends no morse symbol.
NoFrameAfterStop ==
  [][(cam = "none" /\ op' = "track") =>
       /\ \A i \in DOMAIN ev' : ev'[i].req \notin {"hold_start", "action"}
       /\ \A g \in GIDS :
            /\ hold_active'[g] => hold_active[g]
            /\ toggle_state'[g] = toggle_state[g]
       /\ \A cid \in DOMAIN chain_state' :
            chain_state'[cid].step > 0 =>
              /\ cid \in DOMAIN chain_state
              /\ chain_state'[cid].step <= chain_state[cid].step
       /\ \A cid \in DOMAIN mc_sym' : mc_sym'[cid] = <<>>]_vars

(* --------------- sequence matchers after _recal (C39) ------------------ *)
\* C39: when the last handler was _recal every chain is at step 0 and
\* every morse chain has an empty buffer, an unset active flag and no
\* recorded hold start, as after _start.
RecalIdlesMatchers ==
  op = "recal" =>
    /\ \A cid \in DOMAIN chain_state : chain_state[cid].step = 0
    /\ \A cid \in DOMAIN mc_buf : mc_buf[cid] = <<>>
    /\ \A cid \in DOMAIN mc_active : ~mc_active[cid]
    /\ \A cid \in DOMAIN mc_hs : mc_hs[cid] = 0
=============================================================================
